---- MODULE Spec2Model ----
(***************************************************************************)
(* Model of the Camunda CI/CD worker: the webhook ingress                  *)
(* (worker/webhook.py), the OAuth2 token managers (worker/worker.py,       *)
(* worker/auth.py), the supervising loop and the job runtime.              *)
(*                                                                         *)
(* Texts (header values, tokens) are sequences of string pieces, so that   *)
(* prefix tests, prefix removal and stripping are computed, not assumed.   *)
(* Python dicts are records; a JSON null is the record Null.               *)
(***************************************************************************)
EXTENDS Integers, Sequences, FiniteSets, TLC

VARIABLES
    config,      \* AppConfig, frozen at start-up
    whPc,        \* webhook server: "idle" | "responded"
    request,     \* the request being answered
    response,    \* the HTTP response to it
    published,   \* messages the engine accepted while handling it
    rejected,    \* messages whose publish_message call raised while handling it
    cancelled    \* process-instance cancellations POSTed while handling it

whVars == <<config, whPc, request, response, published, rejected, cancelled>>

VARIABLES
    now,         \* wall clock (time.time()), in seconds
    tm,          \* worker.py TokenManager: _token (0 is None) and _token_expiry
    tmLock,      \* worker.py TokenManager._lock: the thread holding it, 0 when free
    thread,      \* callers of get_token / refresh_token: pc and operation
    issued,      \* the token endpoint's record: token id -> instant it expires
    handed,      \* the token last returned to a caller by get_token / token
    authToken    \* auth.py TokenManager._token (0 is None)

tokVars == <<now, tm, tmLock, thread, issued, handed, authToken>>

VARIABLES
    worker,      \* which worker process runs: worker/worker.py or do3-camunda-service
    supPc,       \* where its main() is: create, working, except, sleeping, exited
    jobs,        \* the engine's jobs of the worker's task type: state and retries
    leases,      \* every activation handed to the worker, and what became of it
    reports      \* per lease, the complete / fail / throw-error commands the engine got

rtVars == <<worker, supPc, jobs, leases, reports>>

VARIABLES
    task,        \* a pipeline job: its task type and input variables
    engineJob,   \* the engine's view of it: state, lease number, lease deadline
    invocations  \* the handler invocations of it that are executing

plVars == <<task, engineJob, invocations>>

VARIABLES
    channel,     \* the engine channel create_channel last returned
    rpc          \* the RPC last sent over it: method and metadata

chVars == <<channel, rpc>>

VARIABLES
    conns,       \* every SSH connection opened so far: its key, live, closed
    pool,        \* AsyncSSHClient._connections: key -> connection
    sshLock,     \* AsyncSSHClient._lock: the caller holding it, 0 when free
    caller,      \* callers of run() / close(): where they are in the call
    ran          \* the run() call that ended last: arguments, command outcome, result

sshVars == <<conns, pool, sshLock, caller>>
runVars == <<ran>>

VARIABLES
    retrying     \* the retry() call in progress: loop state and invocations of func

retryVars == <<retrying>>

VARIABLES
    files,       \* the files on the servers: <<host, path>> -> content
    origin,      \* the origin repository: branch -> head commit
    calls        \* the git-pull / save-deploy-state calls and pushes so far, in order

gitVars == <<files, origin, calls>>

VARIABLES
    detected,    \* what the detect-modules job of the deploy pipeline returned
    handler      \* the handler invocation in progress: input, position, calls made

hdlVars == <<detected, handler>>

VARIABLES
    scored       \* the review comment given to _parse_review_score, and the score

scoreVars == <<scored>>

VARIABLES
    resolved     \* the resolve_server call that ended last: argument and result

resVars == <<resolved>>

VARIABLES
    odooTask     \* the task create-odoo-task created: Odoo's record, what was returned

corrVars == <<odooTask>>

\* the handlers and helpers of worker/handlers
hVars == <<hdlVars, scoreVars, resVars, corrVars>>

\* the components added to the four above
extVars == <<chVars, sshVars, runVars, retryVars, gitVars, hVars>>

vars == <<whVars, tokVars, rtVars, plVars, extVars>>

\* what a webhook request, a token operation, a worker step and a pipeline
\* handler step leave alone
webhookFrame == <<config, tokVars, rtVars, plVars, extVars>>
tokenFrame == <<whVars, rtVars, plVars, extVars>>
runtimeFrame == <<whVars, tmLock, thread, handed, authToken, plVars, extVars>>
pipelineFrame ==
    <<whVars, tm, tmLock, thread, issued, handed, authToken, rtVars, task, extVars>>
channelFrame ==
    <<whVars, now, tm, tmLock, thread, handed, rtVars, plVars, sshVars, runVars,
      retryVars, gitVars, hVars>>
sshFrame ==
    <<whVars, tokVars, rtVars, plVars, chVars, runVars, retryVars, gitVars, hVars>>
runFrame ==
    <<whVars, tokVars, rtVars, plVars, chVars, sshVars, retryVars, gitVars, hVars>>
retryFrame ==
    <<whVars, tokVars, rtVars, plVars, chVars, sshVars, runVars, gitVars, hVars>>
gitFrame ==
    <<whVars, tokVars, rtVars, plVars, chVars, sshVars, runVars, retryVars, hVars>>
\* what the components before the handlers are
coreVars ==
    <<whVars, tokVars, rtVars, plVars, chVars, sshVars, runVars, retryVars, gitVars>>
handlerFrame == <<coreVars, scoreVars, resVars, corrVars>>
scoreFrame == <<coreVars, hdlVars, resVars, corrVars>>
resolveFrame == <<coreVars, hdlVars, scoreVars, corrVars>>

----------------------------------------------------------------------------
(* Python and text helpers *)

Null == [null |-> TRUE]
NoRequest == [kind |-> "none"]
NoResponse == [status |-> 0, body |-> [text |-> ""]]

IsDict(v) == "null" \notin DOMAIN v /\ "array" \notin DOMAIN v

\* dict.get(k, default)
Get(d, k, default) == IF k \in DOMAIN d THEN d[k] ELSE default

\* str.startswith(piece)
StartsWith(text, piece) == Len(text) > 0 /\ text[1] = piece

\* str.removeprefix(piece)
RemovePrefix(text, piece) == IF StartsWith(text, piece) THEN Tail(text) ELSE text

RECURSIVE LStrip(_)
LStrip(text) ==
    IF Len(text) > 0 /\ text[1] \in {" ", "\t", "\n"} THEN LStrip(Tail(text)) ELSE text

RECURSIVE RStrip(_)
RStrip(text) ==
    IF Len(text) > 0 /\ text[Len(text)] \in {" ", "\t", "\n"}
    THEN RStrip(SubSeq(text, 1, Len(text) - 1))
    ELSE text

\* str.strip()
Strip(text) == RStrip(LStrip(text))

NonAsciiPiece == "0xE9"

IsAscii(text) == \A i \in 1..Len(text) : text[i] # NonAsciiPiece

\* a JSON value as Python sees it: truthiness and str()
Truthy(v) ==
    CASE v.t = "null" -> FALSE
      [] v.t = "int" -> v.n # 0
      [] v.t = "str" -> v.s # ""

PyStr(v) ==
    CASE v.t = "null" -> "None"
      [] v.t = "int" -> ToString(v.n)
      [] v.t = "str" -> v.s

JStr(s) == [t |-> "str", s |-> s]
JInt(n) == [t |-> "int", n |-> n]
JNull == [t |-> "null"]

\* a or b
PyOr(a, b) == IF Truthy(a) THEN a ELSE b

----------------------------------------------------------------------------
(* hmac *)

\* hmac.new(secret, body, sha256).hexdigest(): a keyed digest of the raw body
HexDigest(secret, body) ==
    "hmac-sha256(" \o secret \o "," \o ToString(body) \o ")"

\* hmac.compare_digest on str: TypeError on non-ASCII input
CompareDigest(a, b) ==
    IF ~IsAscii(a) \/ ~IsAscii(b) THEN "TypeError"
    ELSE IF a = b THEN "True" ELSE "False"

VerifyGithubSignature(body, secret, signature) ==
    IF ~StartsWith(signature, "sha256=") THEN "False"
    ELSE CompareDigest(<<"sha256=", HexDigest(secret, body)>>, signature)

----------------------------------------------------------------------------
(* responses *)

TextResponse(status, text) == [status |-> status, body |-> [text |-> text]]
JsonResponse(json) == [status |-> 200, body |-> json]

\* aiohttp answers an exception that escapes a handler with 500
ServerError == TextResponse(500, "Internal Server Error")

Outcome(resp, pubs, cancels) ==
    [response |-> resp, published |-> pubs, rejected |-> <<>>, cancelled |-> cancels]

\* client creation or publish_message raised: the handler answers 502
PublishRejected(msg) ==
    [response |-> TextResponse(502, "Zeebe publish failed"), published |-> <<>>,
     rejected |-> <<msg>>, cancelled |-> <<>>]

----------------------------------------------------------------------------
(* configuration (worker/config.py) *)

StagingServer ==
    [host |-> "staging.example.com", ssh_user |-> "deploy",
     repo_dir |-> "/opt/odoo-enterprise", db_name |-> "odoo19",
     container |-> "odoo19"]

ProductionServer ==
    [host |-> "prod.example.com", ssh_user |-> "deploy",
     repo_dir |-> "/opt/odoo-enterprise", db_name |-> "odoo19prod",
     container |-> "odoo19prod"]

KozakDemoServer ==
    [host |-> "demo.example.com", ssh_user |-> "deploy",
     repo_dir |-> "/opt/odoo-enterprise", db_name |-> "odoo19",
     container |-> "kozak_demo"]

ServerNamed(name) ==
    CASE name = "staging" -> StagingServer
      [] name = "production" -> ProductionServer
      [] name = "kozak_demo" -> KozakDemoServer

GithubSecret == "test-secret-123"
OdooToken == "odoo-token-456"

\* AppConfig: every combination of configured / unconfigured secrets and servers
AppConfigs ==
    { [webhook_secret |-> s, odoo_webhook_token |-> t,
       repository |-> "tut-ua/odoo-enterprise",
       gateway_address |-> <<"orchestration", ":", "26500">>,
       servers |-> [n \in names |-> ServerNamed(n)]] :
        s \in {"", GithubSecret}, t \in {"", OdooToken},
        names \in SUBSET {"staging", "production", "kozak_demo"} }

\* the configuration of tests/conftest.py
TestConfig ==
    [webhook_secret |-> GithubSecret, odoo_webhook_token |-> OdooToken,
     repository |-> "tut-ua/odoo-enterprise",
     gateway_address |-> <<"orchestration", ":", "26500">>,
     servers |-> [n \in {"staging", "production"} |-> ServerNamed(n)]]

\* dict.update(other)
Update(d, other) ==
    [k \in DOMAIN d \cup DOMAIN other |->
        IF k \in DOMAIN other THEN other[k] ELSE d[k]]

----------------------------------------------------------------------------
(* POST /webhook/github (worker/webhook.py) *)

Message(name, key, variables) ==
    [name |-> name, correlation_key |-> key, variables |-> variables]

PublishFailed == TextResponse(502, "Zeebe publish failed")

\* a faulty variant: the server settings are left out of the variables
ServerVarsOfDropped(cfg, name, prefix) == <<>>

ServerVarsOf(cfg, name, prefix) ==
    IF name \in DOMAIN cfg.servers
    THEN LET srv == cfg.servers[name] IN
         (prefix \o "_host" :> srv.host) @@
         (prefix \o "_ssh_user" :> srv.ssh_user) @@
         (prefix \o "_repo_dir" :> srv.repo_dir) @@
         (prefix \o "_db" :> srv.db_name) @@
         (prefix \o "_container" :> srv.container)
    ELSE <<>>

PrEventVariables(pr, payload, cfg) ==
    LET base == [pr_number |-> Get(pr, "number", 0),
                 pr_url |-> Get(pr, "html_url", ""),
                 pr_title |-> Get(pr, "title", ""),
                 pr_author |-> Get(Get(pr, "user", <<>>), "login", ""),
                 repository |-> Get(Get(payload, "repository", <<>>),
                                    "full_name", cfg.repository),
                 base_branch |-> Get(Get(pr, "base", <<>>), "ref", "staging"),
                 head_branch |-> Get(Get(pr, "head", <<>>), "ref", "")]
    IN Update(Update(base, ServerVarsOf(cfg, "staging", "staging")),
              ServerVarsOf(cfg, "production", "production"))

\* _publish_pr_event: the variables are built outside the try block, so a
\* malformed sub-object escapes as 500; a failing client or publish is a 502
PublishPrEvent(pr, payload, cfg, engineOk) ==
    IF ~IsDict(Get(payload, "repository", <<>>))
       \/ ~IsDict(Get(pr, "user", <<>>))
       \/ ~IsDict(Get(pr, "base", <<>>))
       \/ ~IsDict(Get(pr, "head", <<>>))
    THEN Outcome(ServerError, <<>>, <<>>)
    ELSE LET variables == PrEventVariables(pr, payload, cfg)
             msg == Message("msg_pr_event",
                            Get(variables, "head_branch", ""), variables)
         IN
         IF engineOk
         THEN Outcome(JsonResponse([status |-> "published",
                                    message |-> "msg_pr_event",
                                    pr_number |-> Get(pr, "number", 0)]),
                      <<msg>>, <<>>)
         ELSE PublishRejected(msg)

\* a faulty variant: msg_pr_updated correlated by the head branch, like msg_pr_event
PublishPrUpdatedByBranch(pr, engineOk) ==
    IF ~IsDict(Get(pr, "head", <<>>))
    THEN Outcome(PublishFailed, <<>>, <<>>)
    ELSE LET msg == Message("msg_pr_updated",
                            Get(Get(pr, "head", <<>>), "ref", ""),
                            [pr_updated |-> TRUE,
                             head_sha |-> Get(Get(pr, "head", <<>>), "sha", "")])
         IN
         IF engineOk
         THEN Outcome(JsonResponse([status |-> "published",
                                    message |-> "msg_pr_updated",
                                    pr_number |-> Get(pr, "number", 0)]),
                      <<msg>>, <<>>)
         ELSE PublishRejected(msg)

\* _publish_pr_updated: everything happens inside the try block
PublishPrUpdated(pr, engineOk) ==
    IF ~IsDict(Get(pr, "head", <<>>))
    THEN Outcome(PublishFailed, <<>>, <<>>)
    ELSE LET msg == Message("msg_pr_updated", ToString(Get(pr, "number", 0)),
                            [pr_updated |-> TRUE,
                             head_sha |-> Get(Get(pr, "head", <<>>), "sha", "")])
         IN
         IF engineOk
         THEN Outcome(JsonResponse([status |-> "published",
                                    message |-> "msg_pr_updated",
                                    pr_number |-> Get(pr, "number", 0)]),
                      <<msg>>, <<>>)
         ELSE PublishRejected(msg)

PrEventActions == {"opened", "reopened", "ready_for_review"}

\* a faulty variant: the base branch is not looked at
RoutePrEventAnyBase(payload, cfg, engineOk) ==
    IF ~IsDict(payload) THEN Outcome(ServerError, <<>>, <<>>)
    ELSE
    LET action == Get(payload, "action", "")
        pr == Get(payload, "pull_request", <<>>)
    IN  IF ~IsDict(pr) \/ ~IsDict(Get(pr, "base", <<>>))
        THEN Outcome(ServerError, <<>>, <<>>)
        ELSE IF action \in PrEventActions
        THEN PublishPrEvent(pr, payload, cfg, engineOk)
        ELSE IF action = "synchronize"
        THEN PublishPrUpdated(pr, engineOk)
        ELSE Outcome(JsonResponse([status |-> "ignored", action |-> action]),
                     <<>>, <<>>)

RoutePrEvent(payload, cfg, engineOk) ==
    IF ~IsDict(payload) THEN Outcome(ServerError, <<>>, <<>>)
    ELSE
    LET action == Get(payload, "action", "")
        pr == Get(payload, "pull_request", <<>>)
    IN  IF ~IsDict(pr) \/ ~IsDict(Get(pr, "base", <<>>))
        THEN Outcome(ServerError, <<>>, <<>>)
        ELSE
        LET base_branch == Get(Get(pr, "base", <<>>), "ref", "") IN
        IF base_branch # "staging"
        THEN Outcome(JsonResponse([status |-> "ignored",
                                   reason |-> "base_branch=" \o base_branch]),
                     <<>>, <<>>)
        ELSE IF action \in PrEventActions
        THEN PublishPrEvent(pr, payload, cfg, engineOk)
        ELSE IF action = "synchronize"
        THEN PublishPrUpdated(pr, engineOk)
        ELSE Outcome(JsonResponse([status |-> "ignored", action |-> action]),
                     <<>>, <<>>)

GithubResult(req, cfg, engineOk) ==
    LET secret == cfg.webhook_secret
        signature == Get(req.headers, "X-Hub-Signature-256", <<>>)
        event_type == Get(req.headers, "X-GitHub-Event", "")
    IN  IF secret = ""
        THEN Outcome(TextResponse(500, "Webhook secret not configured"), <<>>, <<>>)
        ELSE
        LET verified == VerifyGithubSignature(req.body, secret, signature) IN
        IF verified = "TypeError" THEN Outcome(ServerError, <<>>, <<>>)
        ELSE IF verified = "False"
        THEN Outcome(TextResponse(401, "Invalid signature"), <<>>, <<>>)
        ELSE IF req.body.kind = "invalid"
        THEN Outcome(TextResponse(400, "Invalid JSON"), <<>>, <<>>)
        ELSE IF event_type = "pull_request"
        THEN RoutePrEvent(req.body.value, cfg, engineOk)
        ELSE Outcome(JsonResponse([status |-> "ignored", event |-> event_type]),
                     <<>>, <<>>)

----------------------------------------------------------------------------
(* POST /webhook/odoo (worker/webhook.py) *)

\* gw.split(':')[0] if ':' in gw else gw
GatewayHost(gw) ==
    IF \E i \in 1..Len(gw) : gw[i] = ":"
    THEN LET i == CHOOSE k \in 1..Len(gw) :
                     gw[k] = ":" /\ \A m \in 1..(k - 1) : gw[m] # ":"
         IN SubSeq(gw, 1, i - 1)
    ELSE gw

CancellationRequest(pik, cfg) ==
    [method |-> "POST", host |-> GatewayHost(cfg.gateway_address),
     port |-> "8080",
     path |-> "/v2/process-instances/" \o pik \o "/cancellation",
     auth |-> <<"demo", "demo">>]

\* _cancel_process_instance: restStatus is the REST answer, "error" a failed call
CancelProcessInstance(pik, cfg, restStatus) ==
    LET sent == <<CancellationRequest(pik, cfg)>> IN
    IF restStatus \in {"200", "204"}
    THEN Outcome(JsonResponse([status |-> "cancelled",
                               process_instance_key |-> pik]), <<>>, sent)
    ELSE IF restStatus = "404"
    THEN Outcome(JsonResponse([status |-> "already_terminated",
                               process_instance_key |-> pik]), <<>>, sent)
    ELSE Outcome(TextResponse(502, "Cancel failed"), <<>>, sent)

\* the token check of _handle_odoo: "pass", "reject" (401) or "TypeError"
OdooTokenCheck(req, expected_token) ==
    IF expected_token = "" THEN "pass"
    ELSE
    LET auth_header == Get(req.headers, "Authorization", <<>>)
        bearer == Strip(RemovePrefix(auth_header, "Bearer "))
        token == IF bearer # <<>> THEN bearer ELSE Get(req.query, "token", <<>>)
        same == CompareDigest(token, <<expected_token>>)
    IN  IF same = "TypeError" THEN "TypeError"
        ELSE IF same = "False" THEN "reject" ELSE "pass"

OdooRoute(req, payload, cfg, engineOk, restStatus) ==
    LET task_id == PyStr(Get(payload, "task_id", JStr("")))
        pik == PyStr(PyOr(Get(payload, "process_instance_key", JStr("")),
                          Get(payload, "x_studio_camunda_process_instance_key",
                              JStr(""))))
        action == Get(payload, "action", JStr(Get(req.query, "action", "done")))
        correlation_key == IF task_id # "" THEN task_id ELSE pik
        msg == Message("msg_odoo_task_done", correlation_key,
                       [odoo_task_resolved |-> TRUE])
    IN  IF correlation_key = ""
        THEN Outcome(TextResponse(400, "Missing task_id or process_instance_key"),
                     <<>>, <<>>)
        ELSE IF action = JStr("cancel") /\ pik # ""
        THEN CancelProcessInstance(pik, cfg, restStatus)
        ELSE IF engineOk
        THEN Outcome(JsonResponse([status |-> "published",
                                   message |-> "msg_odoo_task_done",
                                   correlation_key |-> correlation_key]),
                     <<msg>>, <<>>)
        ELSE PublishRejected(msg)

OdooResult(req, cfg, engineOk, restStatus) ==
    LET check == OdooTokenCheck(req, cfg.odoo_webhook_token) IN
    IF check = "TypeError" THEN Outcome(ServerError, <<>>, <<>>)
    ELSE IF check = "reject"
    THEN Outcome(TextResponse(401, "Invalid token"), <<>>, <<>>)
    ELSE IF req.body.kind = "invalid"
    THEN Outcome(TextResponse(400, "Invalid JSON"), <<>>, <<>>)
    ELSE IF ~IsDict(req.body.value) THEN Outcome(ServerError, <<>>, <<>>)
    ELSE OdooRoute(req, req.body.value, cfg, engineOk, restStatus)

----------------------------------------------------------------------------
(* the requests the model sends *)

Optional(key, value, present) == IF present THEN key :> value ELSE <<>>

InvalidBody == [kind |-> "invalid"]
JsonBody(value) == [kind |-> "json", value |-> value]
JsonArray == [array |-> TRUE]

PullRequest(n, b) ==
    [number |-> n, html_url |-> "https://github.example/pull", title |-> "Add x",
     user |-> [login |-> "dev"], base |-> [ref |-> b],
     head |-> [ref |-> "feat/x", sha |-> "abc123"]]

PullRequests ==
    { PullRequest(42, b) : b \in {"staging", "main"} }
    \cup { Null,
           [number |-> 7],
           [base |-> [ref |-> "staging"]],
           [number |-> 42, base |-> Null],
           [number |-> 42, base |-> [ref |-> "staging"], head |-> Null],
           [number |-> 42, base |-> [ref |-> "staging"], user |-> Null,
            head |-> [ref |-> "feat/y", sha |-> "def456"]] }

GithubActions ==
    {"opened", "reopened", "ready_for_review", "synchronize", "closed"}

GithubPayloads ==
    { Optional("action", a, hasA) @@ Optional("pull_request", pr, hasPr) :
        a \in GithubActions, hasA \in BOOLEAN,
        pr \in PullRequests, hasPr \in BOOLEAN }
    \cup { [action |-> a, pull_request |-> PullRequest(42, "staging"),
            repository |-> r] :
            a \in GithubActions, r \in {Null, [full_name |-> "org/repo"]} }

GithubBodies ==
    {InvalidBody, JsonBody(JsonArray)} \cup { JsonBody(p) : p \in GithubPayloads }

\* what a sender may put into X-Hub-Signature-256 for a body
SignaturesFor(body) ==
    { <<>>,
      <<"sha256=", HexDigest(GithubSecret, body)>>,
      <<"sha256=", HexDigest("other-secret", body)>>,
      <<"sha256=", HexDigest(GithubSecret, InvalidBody)>>,
      <<"sha1=", HexDigest(GithubSecret, body)>>,
      <<HexDigest(GithubSecret, body)>>,
      <<"sha256=", NonAsciiPiece>> }

GithubRequestsFor(body) ==
    { [kind |-> "github", body |-> body,
       headers |-> Optional("X-Hub-Signature-256", sig, sig # <<>>)
                   @@ Optional("X-GitHub-Event", ev, ev # "")] :
        ev \in {"", "pull_request", "push"}, sig \in SignaturesFor(body) }

GithubRequests == UNION { GithubRequestsFor(body) : body \in GithubBodies }

OdooPayloads ==
    { Optional("task_id", t, t # JStr("absent"))
      @@ Optional("process_instance_key", JStr(k), k # "absent")
      @@ Optional("x_studio_camunda_process_instance_key", JStr(x), x # "absent")
      @@ Optional("action", a, a # JStr("absent")) :
        t \in {JStr("absent"), JInt(123), JStr(""), JNull},
        k \in {"absent", "2251799813793035", ""},
        x \in {"absent", "2251799813793036"},
        a \in {JStr("absent"), JStr("done"), JStr("cancel"), JNull} }

OdooBodies ==
    {InvalidBody, JsonBody(JsonArray)} \cup { JsonBody(p) : p \in OdooPayloads }

AuthorizationHeaders ==
    { <<>>,
      <<"Bearer ", OdooToken>>,
      <<"Bearer ", " ", OdooToken>>,
      <<"Bearer ", "wrong-token">>,
      <<OdooToken>>,
      <<"Basic ", OdooToken>>,
      <<"Bearer ", NonAsciiPiece>> }

OdooRequests ==
    { [kind |-> "odoo", body |-> body,
       headers |-> Optional("Authorization", auth, auth # <<>>),
       query |-> Optional("token", qt, qt # <<>>)
                 @@ Optional("action", qa, qa # "")] :
        body \in OdooBodies, auth \in AuthorizationHeaders,
        qt \in {<<>>, <<OdooToken>>, <<"wrong-token">>},
        qa \in {"", "cancel"} }

RestStatuses == {"200", "204", "404", "500", "error"}

----------------------------------------------------------------------------
(* OAuth2 token managers (worker/worker.py, worker/auth.py) *)

NumThreads == 2
MaxIssued == 2
MaxTime == 90
TickSeconds == 30

TokenGuard == 60
DefaultExpiresIn == 300

Threads == 1..NumThreads

\* what the token endpoint may answer: an error status, or a token with or
\* without an expires_in field
TokenAnswers ==
    { [ok |-> FALSE, data |-> <<>>] }
    \cup { [ok |-> TRUE, data |-> [expires_in |-> x]] : x \in {30, 120} }
    \cup { [ok |-> TRUE, data |-> <<>>] }

\* self._token is None or time.time() >= self._token_expiry - 60
NeedsFetch(m, t) == m.token = 0 \/ t >= m.expiry - TokenGuard

\* _fetch_new_token on a successful answer: the manager's new state
Fetched(data, t, id) ==
    [token |-> id, expiry |-> t + Get(data, "expires_in", DefaultExpiresIn)]

\* the endpoint's own record of the token it issues
Issue(data, t) == Append(issued, t + Get(data, "expires_in", DefaultExpiresIn))

Hand(by, id, expiresAt) == [by |-> by, token |-> id, remaining |-> expiresAt - now]

NoToken == [token |-> 0, expiry |-> 0]
NotHanded == [by |-> "none", token |-> 0, remaining |-> 0]
\* seen: how many tokens the endpoint had issued when a get_token() caller
\* began to wait for the lock
IdleThread == [pc |-> "idle", op |-> "none", seen |-> 0]

TokenInit ==
    /\ now = 0
    /\ tm = NoToken
    /\ tmLock = 0
    /\ thread = [t \in Threads |-> IdleThread]
    /\ issued = <<>>
    /\ handed = NotHanded
    /\ authToken = 0

\* a caller enters get_token() or refresh_token() and waits for the lock
CallTokenManager(t, op) ==
    /\ thread[t].pc = "idle"
    /\ thread' = [thread EXCEPT ![t] =
                    [pc |-> "waiting", op |-> op,
                     seen |-> IF op = "get" THEN Len(issued) ELSE 0]]
    /\ UNCHANGED <<now, tm, tmLock, issued, handed, authToken, tokenFrame>>

\* a faulty variant: get_token and refresh_token without self._lock
EnterUnlocked(t) ==
    /\ thread[t].pc = "waiting"
    /\ IF thread[t].op = "get" /\ ~NeedsFetch(tm, now)
       THEN /\ handed' = Hand("get_token", tm.token, issued[tm.token])
            /\ thread' = [thread EXCEPT ![t] = IdleThread]
            /\ UNCHANGED tmLock
       ELSE /\ tmLock' = t
            /\ thread' = [thread EXCEPT ![t].pc = "posting", ![t].seen = 0]
            /\ UNCHANGED handed
    /\ UNCHANGED <<now, tm, issued, authToken, tokenFrame>>

\* with self._lock: get_token returns the cached token, or goes on to POST
EnterLock(t) ==
    /\ thread[t].pc = "waiting"
    /\ tmLock = 0
    /\ IF thread[t].op = "get" /\ ~NeedsFetch(tm, now)
       THEN /\ handed' = Hand("get_token", tm.token, issued[tm.token])
            /\ thread' = [thread EXCEPT ![t] = IdleThread]
            /\ UNCHANGED tmLock
       ELSE /\ tmLock' = t
            /\ thread' = [thread EXCEPT ![t].pc = "posting", ![t].seen = 0]
            /\ UNCHANGED handed
    /\ UNCHANGED <<now, tm, issued, authToken, tokenFrame>>

\* requests.post returns: _fetch_new_token stores and returns the token, or
\* raise_for_status raises and the lock is released
EndpointAnswers(t, ans) ==
    /\ thread[t].pc = "posting"
    /\ tmLock = t
    /\ IF ans.ok
       THEN /\ Len(issued) < MaxIssued
            /\ issued' = Issue(ans.data, now)
            /\ tm' = Fetched(ans.data, now, Len(issued) + 1)
            /\ handed' = IF thread[t].op = "get"
                         THEN Hand("get_token", Len(issued) + 1,
                                   issued'[Len(issued) + 1])
                         ELSE handed
       ELSE UNCHANGED <<issued, tm, handed>>
    /\ tmLock' = 0
    /\ thread' = [thread EXCEPT ![t] = IdleThread]
    /\ UNCHANGED <<now, authToken, tokenFrame>>

\* auth.py TokenManager.refresh_token (create_channel): no expiry is kept
AuthRefreshToken(ans) ==
    /\ ans.ok
    /\ Len(issued) < MaxIssued
    /\ issued' = Issue(ans.data, now)
    /\ authToken' = Len(issued) + 1
    /\ UNCHANGED <<now, tm, tmLock, thread, handed, tokenFrame>>

\* auth.py TokenManager.token: the cached token, fetched only when there is none
AuthToken(ans) ==
    /\ IF authToken = 0
       THEN /\ ans.ok
            /\ Len(issued) < MaxIssued
            /\ issued' = Issue(ans.data, now)
            /\ authToken' = Len(issued) + 1
            /\ handed' = Hand("token", authToken', issued'[authToken'])
       ELSE /\ handed' = Hand("token", authToken, issued[authToken])
            /\ UNCHANGED <<issued, authToken>>
    /\ UNCHANGED <<now, tm, tmLock, thread, tokenFrame>>

Tick ==
    /\ now + TickSeconds <= MaxTime
    /\ now' = now + TickSeconds
    /\ UNCHANGED <<tm, tmLock, thread, issued, handed, authToken, tokenFrame>>

TokenNext ==
    \/ \E t \in Threads, op \in {"get", "refresh"} : CallTokenManager(t, op)
    \/ \E t \in Threads : EnterLock(t)
    \/ \E t \in Threads, ans \in TokenAnswers : EndpointAnswers(t, ans)
    \/ \E ans \in TokenAnswers : AuthRefreshToken(ans)
    \/ \E ans \in TokenAnswers : AuthToken(ans)
    \/ Tick

----------------------------------------------------------------------------
(* the job workers: worker/worker.py and do3-camunda-service/worker.py *)

NumJobs == 1
MaxLeases == 2
InitialRetries == 2

RestartDelay == 5

JobIds == 1..NumJobs

PyNone == [none |-> TRUE]

NoResult == [kind |-> "none", value |-> PyNone, class |-> "", text |-> <<>>]
Return(value) == [kind |-> "return", value |-> value, class |-> "", text |-> <<>>]
Raise(class, text) == [kind |-> "raise", value |-> PyNone, class |-> class, text |-> text]

\* what the called URL may do: a network error, or a response with its
\* status and decoded body ("" when the response has no content)
HttpAnswers ==
    { [error |-> TRUE, status |-> 0, content |-> ""] }
    \cup { [error |-> FALSE, status |-> st, content |-> c] :
             st \in {200, 500}, c \in {"", "body"} }

\* handle_smart_http_request: what the handler returns or raises
HandleSmartHttpRequest(answer, result_variable_name, is_task_listener) ==
    LET response_body == IF answer.content # "" THEN answer.content ELSE "{}"
    IN  IF answer.error
        THEN Raise("Exception", <<"Network error: ", "RequestError">>)
        ELSE IF answer.status >= 400
        THEN Raise("Exception",
                   <<"HTTP ", ToString(answer.status), ": ", response_body>>)
        ELSE IF result_variable_name # ""
        THEN IF is_task_listener
             THEN Return(PyNone)
             ELSE Return([name |-> result_variable_name, value |-> response_body])
        ELSE Return(PyNone)

HttpRequestSmartResults ==
    { HandleSmartHttpRequest(a, v, l) :
        a \in HttpAnswers, v \in {"", "result"}, l \in BOOLEAN }

\* job variables of a do3-document job
Do3Variables ==
    { [createDocument |-> TRUE, documentType |-> "Invoice"],
      [createDocument |-> TRUE],
      [documentId |-> "doc-1"],
      [note |-> "x"] }

\* build_payload: the payload, or the ValueError it raises
BuildPayload(variables) ==
    IF Get(variables, "createDocument", FALSE)
    THEN IF Get(variables, "documentType", "") = ""
         THEN Raise("ValueError", <<"createDocument=true, documentType missing">>)
         ELSE Return([createDocument |-> TRUE,
                      documentType |-> variables.documentType])
    ELSE IF Get(variables, "documentId", "") # ""
    THEN Return([documentId |-> variables.documentId])
    ELSE Raise("ValueError", <<"neither createDocument nor documentId">>)

\* what the DO3 service may answer
Do3Answers ==
    { [status |-> 200, body |-> [status |-> "OK", documentId |-> "doc-1"]],
      [status |-> 200, body |-> [status |-> "OK"]],
      [status |-> 200, body |-> [status |-> "ERROR", message |-> "bad"]],
      [status |-> 500, body |-> <<>>] }

\* send_to_do3: the decoded body, or the RuntimeError it raises
SendToDo3(resp) ==
    IF resp.status >= 400 \/ Get(resp.body, "status", "") # "OK"
    THEN Raise("RuntimeError",
               <<"DO3 error: ",
                 Get(resp.body, "message", "HTTP " \o ToString(resp.status))>>)
    ELSE Return(resp.body)

\* handle_do3_document
HandleDo3Document(variables, resp) ==
    LET payload == BuildPayload(variables)
        result == SendToDo3(resp)
    IN  IF payload.kind = "raise" THEN payload
        ELSE IF result.kind = "raise" THEN result
        ELSE IF "documentId" \in DOMAIN result.value
        THEN Return([do3_status |-> "OK", documentId |-> result.value.documentId])
        ELSE Return([do3_status |-> "OK"])

Do3DocumentResults ==
    { HandleDo3Document(v, r) : v \in Do3Variables, r \in Do3Answers }

Workers == {"python-worker", "do3-worker"}

HandlerResults(w) ==
    IF w = "python-worker" THEN HttpRequestSmartResults ELSE Do3DocumentResults

JobCommand(kind, code, message, variables) ==
    [kind |-> kind, code |-> code, message |-> message, variables |-> variables]

\* ZeebeWorker(channel) is built without an exception handler: the runtime's
\* default one fails the job, whatever the retries left
DefaultExceptionHandler(exc) ==
    JobCommand("fail", "", <<"Failed job. Error: ">> \o exc.text, PyNone)

\* a faulty variant: a failed job is completed as well
JobOutcomesFailThenComplete(result) ==
    IF result.kind = "raise"
    THEN <<DefaultExceptionHandler(result), JobCommand("complete", "", <<>>, PyNone)>>
    ELSE <<JobCommand("complete", "", <<>>, result.value)>>

\* the commands the runtime sends for one handler invocation
JobOutcomes(result) ==
    IF result.kind = "raise"
    THEN <<DefaultExceptionHandler(result)>>
    ELSE <<JobCommand("complete", "", <<>>, result.value)>>

\* the engine applies a command to a job that is still open
EngineApply(job, retries, command) ==
    IF job.state \notin {"leased", "activatable"} THEN job
    ELSE CASE command.kind = "complete" -> [job EXCEPT !.state = "completed"]
           [] command.kind = "error" -> [job EXCEPT !.state = "error"]
           [] command.kind = "fail" ->
                [state |-> IF retries - 1 > 0 THEN "activatable" ELSE "incident",
                 retries |-> retries - 1]

RECURSIVE EngineApplyAll(_, _, _)
EngineApplyAll(job, retries, commands) ==
    IF commands = <<>> THEN job
    ELSE EngineApplyAll(EngineApply(job, retries, Head(commands)), retries,
                        Tail(commands))

Running == { l \in DOMAIN leases : leases[l].fate = "running" }

RuntimeInit ==
    /\ supPc = "create"
    /\ jobs = [j \in JobIds |-> [state |-> "activatable", retries |-> InitialRetries]]
    /\ leases = <<>>
    /\ reports = <<>>

\* create_worker(): get_token(), then the channel, the worker and its task.
\* do3 main(): an insecure channel, no token.
CreateWorker(ans) ==
    /\ supPc = "create"
    /\ IF worker = "python-worker" /\ NeedsFetch(tm, now)
       THEN IF ans.ok
            THEN /\ Len(issued) < MaxIssued
                 /\ issued' = Issue(ans.data, now)
                 /\ tm' = Fetched(ans.data, now, Len(issued) + 1)
                 /\ supPc' = "working"
            ELSE /\ supPc' = "except"
                 /\ UNCHANGED <<issued, tm>>
       ELSE /\ supPc' = "working"
            /\ UNCHANGED <<issued, tm>>
    /\ UNCHANGED <<now, worker, jobs, leases, reports, runtimeFrame>>

\* the engine hands a job to the subscribed worker
ActivateJob(j) ==
    /\ supPc = "working"
    /\ jobs[j].state = "activatable"
    /\ Len(leases) < MaxLeases
    /\ jobs' = [jobs EXCEPT ![j].state = "leased"]
    /\ leases' = Append(leases, [job |-> j, retries |-> jobs[j].retries,
                                  fate |-> "running", result |-> NoResult])
    /\ reports' = Append(reports, <<>>)
    /\ UNCHANGED <<now, tm, issued, worker, supPc, runtimeFrame>>

\* the handler returns or raises and the runtime sends the job's outcome;
\* the command is lost when its RPC fails
HandlerFinishes(l, result, rpcOk) ==
    /\ supPc = "working"
    /\ l \in Running
    /\ LET commands == IF rpcOk THEN JobOutcomes(result) ELSE <<>>
           j == leases[l].job
       IN  /\ reports' = [reports EXCEPT ![l] = commands]
           /\ jobs' = [jobs EXCEPT
                         ![j] = EngineApplyAll(jobs[j], leases[l].retries, commands)]
    /\ leases' = [leases EXCEPT ![l].fate = IF rpcOk THEN "reported" ELSE "lost",
                                ![l].result = IF rpcOk THEN result ELSE NoResult]
    /\ UNCHANGED <<now, tm, issued, worker, supPc, runtimeFrame>>

\* the engine's job timeout: the job can be activated again
LeaseTimeout(j) ==
    /\ jobs[j].state = "leased"
    /\ jobs' = [jobs EXCEPT ![j].state = "activatable"]
    /\ UNCHANGED <<now, tm, issued, worker, supPc, leases, reports, runtimeFrame>>

\* worker.work() raises: main()'s except clause is entered (worker.py), or
\* the exception leaves main() (do3); the invocations in flight are dropped
TransportFailure ==
    /\ supPc = "working"
    /\ supPc' = IF worker = "python-worker" THEN "except" ELSE "exited"
    /\ leases' = [l \in DOMAIN leases |->
                    IF l \in Running THEN [leases[l] EXCEPT !.fate = "abandoned"]
                    ELSE leases[l]]
    /\ UNCHANGED <<now, tm, issued, worker, jobs, reports, runtimeFrame>>

\* except Exception: token_manager.refresh_token(), which raises out of
\* main() when the token endpoint fails
WorkerError(ans) ==
    /\ supPc = "except"
    /\ IF ans.ok
       THEN /\ Len(issued) < MaxIssued
            /\ issued' = Issue(ans.data, now)
            /\ tm' = Fetched(ans.data, now, Len(issued) + 1)
            /\ supPc' = "sleeping"
       ELSE /\ supPc' = "exited"
            /\ UNCHANGED <<issued, tm>>
    /\ UNCHANGED <<now, worker, jobs, leases, reports, runtimeFrame>>

\* await asyncio.sleep(5), then the loop starts over
RestartSleep ==
    /\ supPc = "sleeping"
    /\ now + RestartDelay <= MaxTime
    /\ now' = now + RestartDelay
    /\ supPc' = "create"
    /\ UNCHANGED <<tm, issued, worker, jobs, leases, reports, runtimeFrame>>

\* the token endpoint during start and recovery: an error, a short-lived
\* token, or a token of the default lifetime
RecoveryAnswers ==
    { a \in TokenAnswers : Get(a.data, "expires_in", 30) = 30 }

RuntimeNext ==
    \/ \E ans \in RecoveryAnswers : CreateWorker(ans)
    \/ \E j \in JobIds : ActivateJob(j)
    \/ \E l \in DOMAIN leases, rpcOk \in BOOLEAN :
          \E result \in HandlerResults(worker) : HandlerFinishes(l, result, rpcOk)
    \/ \E j \in JobIds : LeaseTimeout(j)
    \/ TransportFailure
    \/ \E ans \in RecoveryAnswers : WorkerError(ans)
    \/ RestartSleep

----------------------------------------------------------------------------
(* pipeline handlers as sequences of remote commands, against the job timeout
   (worker/handlers/deploy.py module_update, worker/handlers/clickbot.py) *)

MaxActivations == 2
QuickSeconds == 30

\* timeout_ms of the task registration, in seconds
JobTimeoutSeconds(type) ==
    CASE type = "module-update" -> 900000 \div 1000
      [] type = "clickbot-test" -> 3600000 \div 1000

Command(timeout, check) == [timeout |-> timeout, check |-> check]

\* the ssh.run / ssh.run_in_repo calls of module_update and _get_db_password
ModuleUpdateCommands ==
    [printenv  |-> Command(120, FALSE),
     grep_env  |-> Command(120, FALSE),
     installed |-> Command(120, TRUE),
     pycache   |-> Command(120, FALSE),
     stop      |-> Command(30, FALSE),
     update    |-> Command(2100, TRUE),
     up        |-> Command(120, TRUE),
     assets    |-> Command(120, FALSE)]

\* the ssh.run / ssh.run_in_repo calls of clickbot_test
ClickbotCommands(test_mode) ==
    [down         |-> Command(300, FALSE),
     dump         |-> Command(600, TRUE),
     up_db        |-> Command(120, TRUE),
     wait_db      |-> Command(120, FALSE),
     cp_dump      |-> Command(120, TRUE),
     restore      |-> Command(600, FALSE),
     rename       |-> Command(30, TRUE),
     prepare      |-> Command(30, TRUE),
     run          |-> Command((IF test_mode = "full" THEN 3000 ELSE 600) + 120, FALSE),
     cleanup_down |-> Command(300, FALSE),
     cleanup_rm   |-> Command(120, FALSE)]

Commands(t) ==
    IF t.type = "module-update" THEN ModuleUpdateCommands
    ELSE ClickbotCommands(t.test_mode)

Tasks ==
    { [type |-> "module-update", changed_modules |-> m] :
        m \in {"", "all", "mod_a,mod_b"} }
    \cup { [type |-> "clickbot-test", test_mode |-> m] : m \in {"light", "full"} }

\* ssh.run: the command raises RemoteCommandError when it times out, and when
\* it exits non-zero under check=True
CommandRaises(cmd, outcome) ==
    outcome = "timeout" \/ (outcome = "fail" /\ cmd.check)

At(pc, pending) == [pc |-> pc, pending |-> pending]

\* a faulty variant: an empty module list is updated like 'all'
ModuleUpdateStepEmptyIsAll(t, pc, outcome, found) ==
    LET raises == pc # "start" /\ CommandRaises(ModuleUpdateCommands[pc], outcome)
        strategy == IF t.changed_modules \in {"all", ""} THEN At("pycache", "return")
                    ELSE At("installed", "return")
    IN  CASE raises -> At("done", "raise")
          [] pc = "start" -> At("printenv", "return")
          [] pc = "printenv" ->
                IF outcome = "ok" THEN strategy ELSE At("grep_env", "return")
          [] pc = "grep_env" ->
                IF outcome = "ok" THEN strategy ELSE At("done", "raise")
          [] pc = "installed" ->
                IF found THEN At("pycache", "return") ELSE At("done", "return")
          [] pc = "pycache" -> At("stop", "return")
          [] pc = "stop" -> At("update", "return")
          [] pc = "update" -> At("up", "return")
          [] pc = "up" -> At("assets", "return")
          [] pc = "assets" -> At("done", "return")

\* module_update: where the handler goes when the command at pc has ended;
\* found tells whether any of the changed modules is installed
ModuleUpdateStep(t, pc, outcome, found) ==
    LET raises == pc # "start" /\ CommandRaises(ModuleUpdateCommands[pc], outcome)
        strategy == IF t.changed_modules = "all" THEN At("pycache", "return")
                    ELSE At("installed", "return")
    IN  CASE raises -> At("done", "raise")
          [] pc = "start" ->
                IF t.changed_modules = "" THEN At("done", "return")
                ELSE At("printenv", "return")
          [] pc = "printenv" ->
                IF outcome = "ok" THEN strategy ELSE At("grep_env", "return")
          [] pc = "grep_env" ->
                IF outcome = "ok" THEN strategy ELSE At("done", "raise")
          [] pc = "installed" ->
                IF found THEN At("pycache", "return") ELSE At("done", "return")
          [] pc = "pycache" -> At("stop", "return")
          [] pc = "stop" -> At("update", "return")
          [] pc = "update" -> At("up", "return")
          [] pc = "up" -> At("assets", "return")
          [] pc = "assets" -> At("done", "return")

ClickbotOrder ==
    <<"start", "down", "dump", "up_db", "wait_db", "cp_dump", "restore",
      "rename", "prepare", "run">>

\* clickbot_test: the try block command by command, then the finally block,
\* which runs after a return and after an exception alike
ClickbotStep(t, pc, pending, outcome) ==
    LET raises == pc # "start" /\ CommandRaises(ClickbotCommands(t.test_mode)[pc], outcome)
        i == CHOOSE k \in 1..Len(ClickbotOrder) : ClickbotOrder[k] = pc
    IN  CASE pc = "cleanup_down" ->
                IF raises THEN At("done", "raise") ELSE At("cleanup_rm", pending)
          [] pc = "cleanup_rm" ->
                IF raises THEN At("done", "raise") ELSE At("done", pending)
          [] raises -> At("cleanup_down", "raise")
          [] pc = "run" -> At("cleanup_down", "return")
          [] OTHER -> At(ClickbotOrder[i + 1], "return")

HandlerStep(t, pc, pending, outcome, found) ==
    IF t.type = "module-update" THEN ModuleUpdateStep(t, pc, outcome, found)
    ELSE ClickbotStep(t, pc, pending, outcome)

\* how long a remote command may take: it ends quickly, or it runs for as
\* long as its timeout allows, where asyncio.wait_for may cut it
Durations(cmd) == {QuickSeconds, cmd.timeout}

Outcomes(cmd, duration) ==
    IF duration = cmd.timeout THEN {"ok", "fail", "timeout"} ELSE {"ok", "fail"}

NoJob == [state |-> "activatable", lease |-> 0, deadline |-> 0]

PipelineInit ==
    /\ engineJob = NoJob
    /\ invocations = {}

\* the subscribed worker takes an activatable job at once
Activatable == engineJob.state = "activatable" /\ engineJob.lease < MaxActivations

\* the engine leases the job for the task's timeout and the runtime calls
\* the handler
ActivateTask ==
    /\ Activatable
    /\ engineJob' = [state |-> "leased", lease |-> engineJob.lease + 1,
                     deadline |-> now + JobTimeoutSeconds(task.type)]
    /\ invocations' = invocations \cup
          { [lease |-> engineJob.lease + 1, pc |-> "start", pending |-> "return",
             issued_at |-> now, until |-> now,
             deadline |-> now + JobTimeoutSeconds(task.type)] }
    /\ UNCHANGED <<now, pipelineFrame>>

\* the command an invocation waits for ends; the handler issues its next
\* command, or returns or raises and the runtime reports the job's outcome
CommandDone(inv, outcome, found, duration) ==
    /\ inv \in invocations
    /\ inv.until = now
    /\ IF inv.pc = "start" THEN outcome = "ok"
       ELSE outcome \in Outcomes(Commands(task)[inv.pc], now - inv.issued_at)
    /\ LET to == HandlerStep(task, inv.pc, inv.pending, outcome, found)
       IN  IF to.pc = "done"
           THEN /\ invocations' = invocations \ {inv}
                /\ engineJob' =
                      IF engineJob.state \in {"leased", "activatable"}
                      THEN [engineJob EXCEPT
                              !.state = IF to.pending = "return"
                                        THEN "completed" ELSE "failed"]
                      ELSE engineJob
           ELSE /\ duration \in Durations(Commands(task)[to.pc])
                /\ invocations' = (invocations \ {inv}) \cup
                      { [inv EXCEPT !.pc = to.pc, !.pending = to.pending,
                                    !.issued_at = now, !.until = now + duration] }
                /\ UNCHANGED engineJob
    /\ UNCHANGED <<now, pipelineFrame>>

\* the engine's job timeout: the lease is over and the job can be activated
\* again; nothing in the worker ends the handler
JobTimesOut ==
    /\ engineJob.state = "leased"
    /\ now >= engineJob.deadline
    /\ engineJob' = [engineJob EXCEPT !.state = "activatable"]
    /\ UNCHANGED <<now, invocations, pipelineFrame>>

\* the instants at which something is due
Due ==
    { inv.until : inv \in invocations }
    \cup (IF engineJob.state = "leased" THEN {engineJob.deadline} ELSE {})

\* time passes up to the next instant at which something is due
TimePasses ==
    /\ Due # {}
    /\ \A t \in Due : t > now
    /\ ~Activatable
    /\ now' = CHOOSE t \in Due : \A u \in Due : t <= u
    /\ UNCHANGED <<engineJob, invocations, pipelineFrame>>

AllDurations == UNION { Durations(Commands(task)[c]) : c \in DOMAIN Commands(task) }

PipelineNext ==
    \/ ActivateTask
    \/ \E inv \in invocations, outcome \in {"ok", "fail", "timeout"},
          found \in BOOLEAN, duration \in AllDurations :
          CommandDone(inv, outcome, found, duration)
    \/ JobTimesOut
    \/ TimePasses

----------------------------------------------------------------------------
(* the webhook server: one action per request handler *)

WebhookInit ==
    /\ whPc = "idle"
    /\ request = NoRequest
    /\ response = NoResponse
    /\ published = <<>>
    /\ rejected = <<>>
    /\ cancelled = <<>>

Respond(req, out) ==
    /\ request' = req
    /\ response' = out.response
    /\ published' = out.published
    /\ rejected' = out.rejected
    /\ cancelled' = out.cancelled
    /\ whPc' = "responded"
    /\ UNCHANGED webhookFrame

HandleGithub ==
    /\ whPc = "idle"
    /\ \E req \in GithubRequests, engineOk \in BOOLEAN :
          Respond(req, GithubResult(req, config, engineOk))

HandleOdoo ==
    /\ whPc = "idle"
    /\ \E req \in OdooRequests, engineOk \in BOOLEAN, restStatus \in RestStatuses :
          Respond(req, OdooResult(req, config, engineOk, restStatus))

HandleHealth ==
    /\ whPc = "idle"
    /\ Respond([kind |-> "health"], Outcome(JsonResponse([status |-> "ok"]), <<>>, <<>>))

\* the response is written and the handler's locals are dropped
RequestDone ==
    /\ whPc = "responded"
    /\ whPc' = "idle"
    /\ request' = NoRequest
    /\ response' = NoResponse
    /\ published' = <<>>
    /\ rejected' = <<>>
    /\ cancelled' = <<>>
    /\ UNCHANGED webhookFrame

WebhookNext == HandleGithub \/ HandleOdoo \/ HandleHealth \/ RequestDone

----------------------------------------------------------------------------
(* worker/auth.py: the engine channel and the RPCs sent over it *)

\* ZeebeAuthConfig, as far as create_channel reads it
ZeebeAuthConfigs ==
    [client_id : {"", "worker"}, client_secret : {"", "secret"},
     token_url : {"", "https://auth.example.com/token"}, use_tls : BOOLEAN]

\* ZeebeAuthConfig.use_oauth
use_oauth(cfg) == cfg.client_id # "" /\ cfg.client_secret # "" /\ cfg.token_url # ""

\* the engine's RPCs: ActivateJobs answers with a stream, the others with one message
RpcMethods == {"PublishMessage", "CompleteJob", "FailJob", "ThrowError", "ActivateJobs"}
RpcKind(method) ==
    IF method = "ActivateJobs" THEN "unary_stream" ELSE "unary_unary"

\* _BearerTokenInterceptor(grpc.aio.UnaryUnaryClientInterceptor): the kinds of
\* call it is invoked for
BearerTokenInterceptor == {"unary_unary"}

NoChannel == [mode |-> "none", interceptors |-> {}, call_credentials |-> 0]

\* what create_channel returns: a plain channel, a plain channel with the
\* bearer interceptor, or a TLS channel whose call credentials hold the access
\* token read when the channel was built
Channel(cfg, token) ==
    IF ~use_oauth(cfg)
    THEN [mode |-> "insecure", interceptors |-> {}, call_credentials |-> 0]
    ELSE IF ~cfg.use_tls
    THEN [mode |-> "oauth_plain", interceptors |-> BearerTokenInterceptor,
          call_credentials |-> 0]
    ELSE [mode |-> "oauth_tls", interceptors |-> {}, call_credentials |-> token]

\* ('authorization', f'Bearer {token}')
Authorization(token) == [key |-> "authorization", value |-> <<"Bearer ", token>>]

\* the metadata a call of the given kind leaves the channel with: the
\* interceptor, when it is invoked for that kind, appends the manager's token;
\* call credentials add theirs to every call
CallMetadata(ch, kind, managerToken) ==
    (IF kind \in ch.interceptors THEN <<Authorization(managerToken)>> ELSE <<>>)
    \o (IF ch.call_credentials # 0
        THEN <<Authorization(ch.call_credentials)>> ELSE <<>>)

NoRpc == [method |-> "none", metadata |-> <<>>, manager_token |-> 0]

ChannelInit == channel = NoChannel /\ rpc = NoRpc

\* create_channel(config): without OAuth2 a plain channel; otherwise a new
\* token manager whose first refresh_token() either raises (no channel) or
\* yields the token the channel is built with
create_channel(cfg, ans) ==
    /\ IF ~use_oauth(cfg)
       THEN /\ channel' = Channel(cfg, 0)
            /\ UNCHANGED <<issued, authToken>>
       ELSE IF ~ans.ok
       THEN /\ channel' = NoChannel
            /\ authToken' = 0
            /\ UNCHANGED issued
       ELSE /\ Len(issued) < MaxIssued
            /\ issued' = Issue(ans.data, now)
            /\ authToken' = Len(issued) + 1
            /\ channel' = Channel(cfg, authToken')
    /\ rpc' = NoRpc
    /\ UNCHANGED channelFrame

\* get_token_manager().refresh_token() on the manager of the channel
RefreshChannelToken(ans) ==
    /\ channel.mode \in {"oauth_plain", "oauth_tls"}
    /\ ans.ok
    /\ Len(issued) < MaxIssued
    /\ issued' = Issue(ans.data, now)
    /\ authToken' = Len(issued) + 1
    /\ UNCHANGED <<channel, rpc, channelFrame>>

\* a pyzeebe client or worker sends one RPC over the channel
SendRpc(method) ==
    /\ channel.mode # "none"
    /\ rpc' = [method |-> method,
               metadata |-> CallMetadata(channel, RpcKind(method), authToken),
               manager_token |-> authToken]
    /\ UNCHANGED <<channel, issued, authToken, channelFrame>>

ChannelNext ==
    \/ \E cfg \in ZeebeAuthConfigs, ans \in TokenAnswers : create_channel(cfg, ans)
    \/ \E ans \in TokenAnswers : RefreshChannelToken(ans)
    \/ \E method \in RpcMethods : SendRpc(method)

----------------------------------------------------------------------------
(* worker/ssh.py: CommandResult, the connection pool, run() and close() *)

NumCallers == 2
MaxConns == 2

Callers == 1..NumCallers
SshServers == {StagingServer, ProductionServer}

\* f'{server.ssh_user}@{server.host}:{server.ssh_port}' (ssh_port defaults to 22)
PoolKey(server) ==
    server.ssh_user \o "@" \o server.host \o ":" \o ToString(Get(server, "ssh_port", 22))

\* CommandResult and its success property
CommandResult(stdout, stderr, exit_code) ==
    [stdout |-> stdout, stderr |-> stderr, exit_code |-> exit_code]

\* a faulty variant: every result counts as a success
successWhateverTheCode(r) == TRUE

success(r) == r.exit_code = 0

\* CommandResult.check(message); the outputs here are shorter than 500 characters
check(r, message) ==
    IF ~success(r)
    THEN LET error == IF Strip(r.stderr) # <<>> THEN Strip(r.stderr) ELSE r.stdout
         IN Raise("RemoteCommandError",
                  <<message, " (exit code ", ToString(r.exit_code), "): ">> \o error)
    ELSE Return(r)

\* what the remote end does with a command: it exits (asyncssh reports no
\* exit status when a signal ended it), it outlasts the timeout, or the
\* connection fails under it
RemoteOutcomes ==
    [kind : {"exit"}, exit_status : {JInt(0), JInt(1), JInt(2), JNull},
     stdout : {<<>>, <<"ok", "\n">>},
     stderr : {<<>>, <<" ", "\n">>, <<"fatal: not a git repository", "\n">>}]
    \cup {[kind |-> "timeout"], [kind |-> "lost"]}

\* run(), from the end of conn.run(command, check=False) under wait_for
RunResult(server, outcome, timeout, chk) ==
    IF outcome.kind = "timeout"
    THEN Raise("RemoteCommandError",
               <<"Command timed out after ", ToString(timeout), "s on ", server.host>>)
    ELSE IF outcome.kind = "lost"
    THEN Raise("ConnectionLost", <<"Connection lost">>)
    ELSE LET cmd_result ==
                 CommandResult(outcome.stdout, outcome.stderr,
                               IF Truthy(outcome.exit_status)
                               THEN outcome.exit_status.n ELSE 0)
         IN IF chk THEN check(cmd_result, "Failed on " \o server.host)
            ELSE Return(cmd_result)

NoCall ==
    [host |-> "", timeout |-> 0, check |-> FALSE, remote |-> [kind |-> "none"],
     result |-> NoResult]

RunInit == ran = NoCall

\* run(server, command, timeout, check), from the connection on
Run(server, outcome, timeout, chk) ==
    /\ ran' = [host |-> server.host, timeout |-> timeout, check |-> chk,
               remote |-> outcome,
               result |-> RunResult(server, outcome, timeout, chk)]
    /\ UNCHANGED runFrame

\* the timeouts the handlers pass: 60 for git fetch, 120 by default
RunNext ==
    \E server \in SshServers, outcome \in RemoteOutcomes, timeout \in {60, 120},
       chk \in BOOLEAN : Run(server, outcome, timeout, chk)

IdleCaller == [pc |-> "idle", op |-> "none"]

SshInit ==
    /\ conns = <<>>
    /\ pool = <<>>
    /\ sshLock = 0
    /\ caller = [c \in Callers |-> IdleCaller]

Without(p, key) == [k \in DOMAIN p \ {key} |-> p[k]]

\* close(), once it has the lock: conn.close() on every pooled connection,
\* then _connections.clear()
ClosedAll(cs, p) ==
    [i \in DOMAIN cs |->
        IF \E k \in DOMAIN p : p[k] = i THEN [cs[i] EXCEPT !.closed = TRUE, !.live = FALSE]
        ELSE cs[i]]

\* a faulty variant: the pool is not emptied
ClearedNothing(p) == p

Cleared(p) == <<>>

\* 'async with self._lock' is entered by close(), which runs to its end
CloseAll(c) ==
    /\ conns' = ClosedAll(conns, pool)
    /\ pool' = Cleared(pool)
    /\ caller' = [caller EXCEPT ![c] = IdleCaller]
    /\ UNCHANGED sshLock

\* 'async with self._lock' is entered by _get_connection, which looks the
\* key up and goes on to probe the pooled connection or to connect
LookUp(c, server) ==
    /\ sshLock' = c
    /\ caller' = [caller EXCEPT ![c] =
          [pc |-> IF PoolKey(server) \in DOMAIN pool THEN "probe" ELSE "connect",
           op |-> "run", server |-> server]]
    /\ UNCHANGED <<conns, pool>>

\* a handler calls run() or run_in_repo(): run() starts with _get_connection,
\* which waits when the lock is taken
CallRun(c, server) ==
    /\ caller[c].pc = "idle"
    /\ IF sshLock = 0 THEN LookUp(c, server)
       ELSE /\ caller' = [caller EXCEPT ![c] =
                  [pc |-> "lock", op |-> "run", server |-> server]]
            /\ UNCHANGED <<conns, pool, sshLock>>
    /\ UNCHANGED sshFrame

\* close() is called and comes to its 'async with self._lock'
CallClose(c) ==
    /\ caller[c].pc = "idle"
    /\ caller' = [caller EXCEPT ![c] = [pc |-> "lock", op |-> "close"]]
    /\ UNCHANGED <<conns, pool, sshLock, sshFrame>>

\* the lock is free for a caller that is at 'async with self._lock'
EnterPoolLock(c) ==
    /\ caller[c].pc = "lock"
    /\ sshLock = 0
    /\ IF caller[c].op = "close" THEN CloseAll(c) ELSE LookUp(c, caller[c].server)
    /\ UNCHANGED sshFrame

\* await conn.run('true', check=True, timeout=5) on the pooled connection: it
\* raises on a connection that is gone, and may raise on a live one (no
\* answer within 5 seconds, no free session on the server)
Probe(c, ok) ==
    LET key == PoolKey(caller[c].server) IN
    /\ caller[c].pc = "probe"
    /\ ok => conns[pool[key]].live
    /\ IF ok
       THEN /\ caller' = [caller EXCEPT ![c] = [@ EXCEPT !.pc = "exec"] @@ [conn |-> pool[key]]]
            /\ sshLock' = 0
            /\ UNCHANGED pool
       ELSE /\ pool' = Without(pool, key)
            /\ caller' = [caller EXCEPT ![c].pc = "connect"]
            /\ UNCHANGED sshLock
    /\ UNCHANGED <<conns, sshFrame>>

\* a faulty variant: the new connection is not put into the pool
ConnectUnpooled(c, ok) ==
    LET key == PoolKey(caller[c].server) IN
    /\ caller[c].pc = "connect"
    /\ sshLock' = 0
    /\ IF ok
       THEN /\ Len(conns) < MaxConns
            /\ conns' = Append(conns, [key |-> key, live |-> TRUE, closed |-> FALSE])
            /\ pool' = pool
            /\ caller' = [caller EXCEPT ![c] =
                  [@ EXCEPT !.pc = "exec"] @@ [conn |-> Len(conns')]]
       ELSE /\ caller' = [caller EXCEPT ![c] = IdleCaller]
            /\ UNCHANGED <<conns, pool>>
    /\ UNCHANGED sshFrame

\* conn = await asyncssh.connect(...); self._connections[key] = conn
Connect(c, ok) ==
    LET key == PoolKey(caller[c].server) IN
    /\ caller[c].pc = "connect"
    /\ sshLock' = 0
    /\ IF ok
       THEN /\ Len(conns) < MaxConns
            /\ conns' = Append(conns, [key |-> key, live |-> TRUE, closed |-> FALSE])
            /\ pool' = (key :> Len(conns')) @@ pool
            /\ caller' = [caller EXCEPT ![c] =
                  [@ EXCEPT !.pc = "exec"] @@ [conn |-> Len(conns')]]
       ELSE /\ caller' = [caller EXCEPT ![c] = IdleCaller]
            /\ UNCHANGED <<conns, pool>>
    /\ UNCHANGED sshFrame

\* the command ends, or the timeout of wait_for does: run() returns or
\* raises, and leaves the pool as it is
Execute(c) ==
    /\ caller[c].pc = "exec"
    /\ caller' = [caller EXCEPT ![c] = IdleCaller]
    /\ UNCHANGED <<conns, pool, sshLock, sshFrame>>

\* the network or the remote host drops a connection
ConnectionDrops(i) ==
    /\ conns[i].live
    /\ conns' = [conns EXCEPT ![i].live = FALSE]
    /\ UNCHANGED <<pool, sshLock, caller, sshFrame>>

SshNext ==
    \/ \E c \in Callers, server \in SshServers : CallRun(c, server)
    \/ \E c \in Callers : CallClose(c)
    \/ \E c \in Callers : EnterPoolLock(c)
    \/ \E c \in Callers, ok \in BOOLEAN : Probe(c, ok)
    \/ \E c \in Callers, ok \in BOOLEAN : Connect(c, ok)
    \/ \E c \in Callers : Execute(c)
    \/ \E i \in DOMAIN conns : ConnectionDrops(i)

----------------------------------------------------------------------------
(* worker/retry.py *)

MaxAttempts == 3

\* what one 'await func()' does: returns a value, raises an Exception, or
\* raises a BaseException that is not an Exception (task cancellation)
FuncOutcomes(n) ==
    { Return(JStr("ok")),
      Raise("ValueError", <<"fail ", ToString(n)>>),
      Raise("RemoteCommandError", <<"Failed on staging.example.com (exit code 128): ">>),
      Raise("CancelledError", <<>>) }

IsException(exc) == exc.class # "CancelledError"

\* a faulty variant: one attempt too many
AttemptsAndOneMore(max_attempts) == 1..(max_attempts + 1)

\* range(1, max_attempts + 1)
Attempts(max_attempts) == 1..max_attempts

NotRetrying == [pc |-> "idle", outcomes |-> <<>>]

RetryInit == retrying = NotRetrying

\* the for loop comes to its next attempt, or ends and 'raise last_exc' runs
\* (raise None is a TypeError)
NextAttempt(r, attempt) ==
    IF attempt \in Attempts(r.max_attempts)
    THEN [r EXCEPT !.pc = "call", !.attempt = attempt]
    ELSE [r EXCEPT !.pc = "raised",
                   !.result = IF r.last_exc = PyNone
                              THEN Raise("TypeError", <<"exceptions must derive from BaseException">>)
                              ELSE r.last_exc]

\* retry(func, max_attempts, delay, backoff) is called
retry(max_attempts, delay, backoff) ==
    /\ retrying.pc = "idle"
    /\ retrying' = NextAttempt(
          [pc |-> "call", max_attempts |-> max_attempts, attempt |-> 0,
           delay |-> delay, current_delay |-> delay, backoff |-> backoff,
           last_exc |-> PyNone, outcomes |-> <<>>, slept |-> <<>>,
           interrupted |-> FALSE, result |-> NoResult], 1)
    /\ UNCHANGED retryFrame

\* await func(): it returns, or raises; on an Exception with attempts left
\* asyncio.sleep(current_delay) is awaited, and after the last attempt the
\* loop ends
Invoke(outcome) ==
    LET r == [retrying EXCEPT !.outcomes = Append(@, outcome)] IN
    /\ retrying.pc = "call"
    /\ retrying' =
          IF outcome.kind = "return"
          THEN [r EXCEPT !.pc = "returned", !.result = outcome]
          ELSE IF ~IsException(outcome)
          THEN [r EXCEPT !.pc = "raised", !.result = outcome]
          ELSE IF r.attempt < r.max_attempts
          THEN [r EXCEPT !.pc = "sleep",
                         !.last_exc = outcome,
                         !.slept = Append(@, r.current_delay)]
          ELSE NextAttempt([r EXCEPT !.last_exc = outcome], r.attempt + 1)
    /\ UNCHANGED retryFrame

RECURSIVE Power(_, _)
Power(b, e) == IF e = 0 THEN 1 ELSE b * Power(b, e - 1)

\* a faulty variant: the delay grows by addition
NextDelaySum(current_delay, backoff) == current_delay + backoff

\* current_delay *= backoff
NextDelay(current_delay, backoff) == current_delay * backoff

\* a faulty variant: a cancelled sleep is taken for a finished one
SleepThrough(interrupted) ==
    /\ retrying.pc = "sleep"
    /\ retrying' =
          NextAttempt(
             [retrying EXCEPT
                 !.interrupted = interrupted,
                 !.current_delay = NextDelay(@, retrying.backoff)],
             retrying.attempt + 1)
    /\ UNCHANGED retryFrame

\* await asyncio.sleep(current_delay) ends: the delay has passed and the loop
\* goes on, or the task was cancelled and CancelledError leaves retry()
Sleep(interrupted) ==
    /\ retrying.pc = "sleep"
    /\ retrying' =
          IF interrupted
          THEN [retrying EXCEPT !.pc = "raised",
                                !.interrupted = TRUE,
                                !.result = Raise("CancelledError", <<>>)]
          ELSE NextAttempt(
                  [retrying EXCEPT
                      !.current_delay = NextDelay(@, retrying.backoff)],
                  retrying.attempt + 1)
    /\ UNCHANGED retryFrame

\* the caller has the result or the exception
RetryEnds ==
    /\ retrying.pc \in {"returned", "raised"}
    /\ retrying' = NotRetrying
    /\ UNCHANGED retryFrame

RetryNext ==
    \/ \E max_attempts \in 0..MaxAttempts, delay \in {1, 5}, backoff \in {2, 3} :
          retry(max_attempts, delay, backoff)
    \/ \E outcome \in FuncOutcomes(Len(retrying.outcomes) + 1) : Invoke(outcome)
    \/ \E interrupted \in BOOLEAN : Sleep(interrupted)
    \/ RetryEnds

----------------------------------------------------------------------------
(* worker/handlers/deploy.py: git-pull and save-deploy-state *)

MaxCalls == 3

Commits == {"aaa1111", "bbb2222"}
Branches == {"staging", "main"}

\* the server_host inputs: a configured name, and the host of a configured server
ServerHosts == {"staging", "prod.example.com"}

\* the names from_env registers servers under, in its order
ServerOrder == <<"staging", "production", "kozak_demo">>

\* a faulty variant: by host first, then by name
resolve_serverByHostFirst(cfg, server_host) ==
    LET by_host == SelectSeq(ServerOrder,
                             LAMBDA n : n \in DOMAIN cfg.servers
                                        /\ cfg.servers[n].host = server_host)
    IN  IF by_host # <<>> THEN Return(cfg.servers[by_host[1]])
        ELSE IF server_host \in DOMAIN cfg.servers
        THEN Return(cfg.servers[server_host])
        ELSE Raise("ValueError", <<"No server config for '", server_host, "'">>)

\* AppConfig.resolve_server: by name first, then the first server of the dict
\* with that host, else ValueError
resolve_server(cfg, server_host) ==
    LET by_host == SelectSeq(ServerOrder,
                             LAMBDA n : n \in DOMAIN cfg.servers
                                        /\ cfg.servers[n].host = server_host)
    IN  IF server_host \in DOMAIN cfg.servers
        THEN Return(cfg.servers[server_host])
        ELSE IF by_host # <<>> THEN Return(cfg.servers[by_host[1]])
        ELSE Raise("ValueError", <<"No server config for '", server_host, "'">>)

\* a faulty variant: one state file for all branches
StateFileOfRepo(repo, branch) == repo \o "/.deploy-state/deploy_state"

\* f"{repo}/.deploy-state/deploy_state_{branch}"
StateFile(repo, branch) == repo \o "/.deploy-state/deploy_state_" \o branch

\* stdout of 'cat {state_file} 2>/dev/null || echo none' on a host
CatOrNone(fs, host, path) ==
    IF <<host, path>> \in DOMAIN fs THEN fs[<<host, path>>] ELSE <<"none", "\n">>

\* the file system after echo '{new_commit}' > {state_file}
Echoed(fs, host, path, new_commit) ==
    [f \in DOMAIN fs \cup {<<host, path>>} |->
        IF f = <<host, path>> THEN <<new_commit, "\n">> ELSE fs[f]]

GitInit ==
    /\ files = <<>>
    /\ origin = [b \in Branches |-> "aaa1111"]
    /\ calls = <<>>

\* git-pull: read the state file, fetch (three attempts), checkout and
\* rev-parse; fetched tells whether the git commands went through
git_pull(server_host, branch, repo_dir, fetched) ==
    LET server == resolve_server(config, server_host).value
        repo == IF repo_dir # "" THEN repo_dir ELSE server.repo_dir
        state_file == StateFile(repo, branch)
        old_commit == Strip(CatOrNone(files, server.host, state_file))
        new_commit == Strip(<<origin[branch], "\n">>)
        result ==
            IF fetched
            THEN Return([old_commit |-> old_commit, new_commit |-> new_commit,
                         has_changes |-> old_commit # new_commit])
            ELSE Raise("RemoteCommandError",
                       <<"Failed on ", server.host, " (exit code 128): ">>)
    IN /\ Len(calls) < MaxCalls
       /\ calls' = Append(calls, [op |-> "git-pull", host |-> server.host,
                                  repo |-> repo, branch |-> branch, result |-> result])
       /\ UNCHANGED <<files, origin, gitFrame>>

\* save-deploy-state: one remote command under check=True; it may fail before
\* the file is written, or after (the final chmod, or a timeout that leaves the
\* remote shell running)
save_deploy_state(server_host, branch, new_commit, repo_dir, outcome) ==
    LET server == resolve_server(config, server_host).value
        repo == IF repo_dir # "" THEN repo_dir ELSE server.repo_dir
        state_file == StateFile(repo, branch)
    IN /\ Len(calls) < MaxCalls
       /\ files' = IF outcome = "fails" THEN files
                   ELSE Echoed(files, server.host, state_file, new_commit)
       /\ calls' = Append(calls, [op |-> "save-deploy-state", host |-> server.host,
                                  repo |-> repo, branch |-> branch,
                                  new_commit |-> new_commit,
                                  result |-> IF outcome = "ok" THEN Return(<<>>)
                                             ELSE Raise("RemoteCommandError",
                                                        <<"Failed on ", server.host>>)])
       /\ UNCHANGED <<origin, gitFrame>>

\* somebody pushes to the branch on the origin
Push(branch, commit) ==
    /\ Len(calls) < MaxCalls
    /\ origin[branch] # commit
    /\ origin' = [origin EXCEPT ![branch] = commit]
    /\ calls' = Append(calls, [op |-> "push", branch |-> branch])
    /\ UNCHANGED <<files, gitFrame>>

GitNext ==
    \/ \E server_host \in ServerHosts, branch \in Branches, fetched \in BOOLEAN :
          git_pull(server_host, branch, "", fetched)
    \/ \E server_host \in ServerHosts, branch \in Branches, new_commit \in Commits,
          outcome \in {"ok", "fails", "fails_after_write"} :
          save_deploy_state(server_host, branch, new_commit, "", outcome)
    \/ \E branch \in Branches, commit \in Commits : Push(branch, commit)

----------------------------------------------------------------------------
(* worker/handlers/sync.py: git-commit-push and fetch-current-version *)

Shas == {"8f3a2b1c", "d41e9a07"}

\* the server_host inputs: the default, which is kozak_demo, and a name
SyncHosts == {"", "staging"}

\* the configuration with all three servers
SyncConfig ==
    [TestConfig EXCEPT
        !.servers = [n \in {"staging", "production", "kozak_demo"} |-> ServerNamed(n)]]

\* _resolve_server
ResolveSyncServer(cfg, server_host) ==
    resolve_server(cfg, IF server_host # "" THEN server_host ELSE "kozak_demo")

ShasFile(repo) == repo \o "/.sync-state/upstream_shas.json"

\* json.dumps of the state, as the pieces echo writes
StateJson(community_sha, enterprise_sha) ==
    <<"{\"community_sha\": \"", community_sha,
      "\", \"enterprise_sha\": \"", enterprise_sha,
      "\", \"synced_at\": \"", "20260101-000000",
      "\", \"upstream_branch\": \"", "19.0", "\"}", "\n">>

\* the file system after echo '{state_json}' > {path}
Redirected(fs, host, path, pieces) ==
    [f \in DOMAIN fs \cup {<<host, path>>} |->
        IF f = <<host, path>> THEN pieces ELSE fs[f]]

\* stdout of 'cat {repo_dir}/.sync-state/upstream_shas.json 2>/dev/null || echo {}'
CatOrEmpty(fs, host, path) ==
    IF <<host, path>> \in DOMAIN fs THEN fs[<<host, path>>] ELSE <<"{}", "\n">>

\* json.loads(stdout.strip()) followed by state.get('community_sha', '') and
\* state.get('enterprise_sha', '')
LoadShas(stdout) ==
    LET text == Strip(stdout) IN
    IF Len(text) = 9 /\ text[1] = "{\"community_sha\": \""
                     /\ text[3] = "\", \"enterprise_sha\": \""
    THEN [community_sha |-> text[2], enterprise_sha |-> text[4]]
    ELSE [community_sha |-> "", enterprise_sha |-> ""]

\* where git_commit_push stops: at a command under check=True that fails, at
\* the state write that times out before or after the redirection, or not at
\* all; the state write is run without check, so its exit status is not read
PushOutcomes ==
    {"ok", "config_fails", "checkout_fails", "add_fails", "commit_fails",
     "push_fails", "write_fails", "write_times_out", "write_times_out_after"}

\* git-commit-push
git_commit_push(server_host, runbot_community_sha, runbot_enterprise_sha, outcome) ==
    LET server == ResolveSyncServer(config, server_host).value
        path == ShasFile(server.repo_dir)
        written == outcome \in {"ok", "write_times_out_after"}
        result ==
            IF outcome \in {"ok", "write_fails"}
            THEN Return([sync_branch |-> "sync/upstream-20260101-000000",
                         base_branch |-> "staging", is_draft |-> TRUE])
            ELSE Raise("RemoteCommandError", <<outcome>>)
    IN /\ Len(calls) < MaxCalls
       /\ files' = IF written
                   THEN Redirected(files, server.host, path,
                                   StateJson(runbot_community_sha,
                                             runbot_enterprise_sha))
                   ELSE files
       /\ calls' = Append(calls, [op |-> "git-commit-push", host |-> server.host,
                                  outcome |-> outcome,
                                  community_sha |-> runbot_community_sha,
                                  enterprise_sha |-> runbot_enterprise_sha,
                                  before |-> CatOrEmpty(files, server.host, path),
                                  result |-> result])
       /\ UNCHANGED <<origin, gitFrame>>

\* fetch-current-version: release.py is read under check=True, the state file
\* without
fetch_current_version(server_host, outcome) ==
    LET server == ResolveSyncServer(config, server_host).value
        path == ShasFile(server.repo_dir)
        state == LoadShas(CatOrEmpty(files, server.host, path))
        result ==
            IF outcome = "ok"
            THEN Return([current_version |-> "19.0",
                         current_community_sha |-> state.community_sha,
                         current_enterprise_sha |-> state.enterprise_sha])
            ELSE Raise("RemoteCommandError", <<outcome>>)
    IN /\ Len(calls) < MaxCalls
       /\ calls' = Append(calls, [op |-> "fetch-current-version",
                                  host |-> server.host, outcome |-> outcome,
                                  result |-> result])
       /\ UNCHANGED <<files, origin, gitFrame>>

SyncNext ==
    \/ \E server_host \in SyncHosts, community \in Shas, enterprise \in Shas,
          outcome \in PushOutcomes :
          git_commit_push(server_host, community, enterprise, outcome)
    \/ \E server_host \in SyncHosts, outcome \in {"ok", "release_fails", "cat_times_out"} :
          fetch_current_version(server_host, outcome)

----------------------------------------------------------------------------
(* worker/handlers/deploy.py: detect-modules, module-update and rollback;
   worker/handlers/sync.py: github-pr-ready.  A str that the handlers take
   apart (a module list, a command's stdout) is a sequence of pieces. *)

\* 'if total_files > 250' of detect_modules
MaxChangedFiles == 250
\* 'if len(update_mods) > 10' of module_update
MaxPerModule == 10

\* the str the pieces spell
RECURSIVE Text(_)
Text(pieces) == IF pieces = <<>> THEN "" ELSE pieces[1] \o Text(Tail(pieces))

\* str.split(sep)
RECURSIVE Split(_, _)
Split(text, sep) ==
    IF \E i \in 1..Len(text) : text[i] = sep
    THEN LET i == CHOOSE k \in 1..Len(text) :
                     text[k] = sep /\ \A m \in 1..(k - 1) : text[m] # sep
         IN <<SubSeq(text, 1, i - 1)>> \o Split(SubSeq(text, i + 1, Len(text)), sep)
    ELSE <<text>>

\* sep.join(names), as pieces
RECURSIVE Join(_, _)
Join(names, sep) ==
    IF names = <<>> THEN <<>>
    ELSE IF Len(names) = 1 THEN <<names[1]>>
    ELSE <<names[1], sep>> \o Join(Tail(names), sep)

Digits == <<"0", "1", "2", "3", "4", "5", "6", "7", "8", "9">>
IsDigit(piece) == \E d \in 1..10 : Digits[d] = piece
DigitValue(piece) == (CHOOSE d \in 1..10 : Digits[d] = piece) - 1

\* int(text) of a run of decimal digits
RECURSIVE ToInt(_)
ToInt(digits) ==
    IF digits = <<>> THEN 0
    ELSE ToInt(SubSeq(digits, 1, Len(digits) - 1)) * 10 + DigitValue(digits[Len(digits)])

IsNumeral(text) == text # <<>> /\ \A i \in 1..Len(text) : IsDigit(text[i])

\* the module directories of the model, in the order sorted() gives them
ModuleNames == <<"mod_a", "tut_hr">>

\* the addon roots detect_modules walks, and the index of the module directory
\* in a path below each
AddonRoots ==
    <<[base_dir |-> "src/custom", at |-> 3],
      [base_dir |-> "src/enterprise", at |-> 3],
      [base_dir |-> "src/third-party", at |-> 3],
      [base_dir |-> "src/community/odoo/addons", at |-> 5]>>

\* the modules one root contributes: for every changed path deep enough, the
\* directory at the module position, if its __manifest__.py exists
ModulesBelow(root, lines, manifests) ==
    { lines[i][root.at] :
        i \in { k \in 1..Len(lines) :
                  /\ Len(lines[k]) >= root.at
                  /\ <<root.base_dir, lines[k][root.at]>> \in manifests } }

\* detect_modules, given what the remote commands answer: the stdout of the
\* file count (lost when the command fails), the changed paths below each
\* root, the manifests that exist, the stdout of the docker diff, and whether
\* a later command times out
DetectModules(cfg, server_host, old_commit, new_commit, answers) ==
    LET server == resolve_server(cfg, server_host)
        counted == Strip(answers.count)
        total_files == ToInt(counted)
        modules == UNION { ModulesBelow(AddonRoots[r], answers.diffs[r],
                                        answers.manifests) :
                             r \in 1..Len(AddonRoots) }
        sorted == SelectSeq(ModuleNames, LAMBDA m : m \in modules)
        all == [changed_modules |-> <<"all">>, docker_build_needed |-> TRUE]
    IN  IF server.kind = "raise" THEN server
        ELSE IF old_commit = "none" THEN Return(all)
        ELSE IF answers.count = <<"lost">>
        THEN Raise("RemoteCommandError", <<"Failed on ", server.value.host>>)
        ELSE IF ~IsNumeral(counted) THEN Raise("ValueError", <<"invalid literal">>)
        ELSE IF total_files > MaxChangedFiles THEN Return(all)
        ELSE IF answers.broken
        THEN Raise("RemoteCommandError", <<"Timeout on ", server.value.host>>)
        ELSE Return([changed_modules |-> Join(sorted, ","),
                     docker_build_needed |-> Strip(answers.docker) # <<>>])

\* module_list of module_update
ModuleList(changed_modules) ==
    LET items == Split(changed_modules, ",")
        kept == SelectSeq(items, LAMBDA m : Strip(m) # <<>>)
    IN  [i \in 1..Len(kept) |-> Text(Strip(kept[i]))]

\* installed of module_update, from the stdout of the psql query
Installed(stdout) ==
    LET lines == Split(Strip(stdout), "\n")
    IN  { Text(lines[i]) : i \in 1..Len(lines) }

\* a faulty variant: 'all' is looked up among the installed modules like a name
UpdateModulesByList(changed_modules, installed) ==
    LET update_mods == SelectSeq(ModuleList(changed_modules),
                                 LAMBDA m : m \in installed)
    IN  IF Len(update_mods) > MaxPerModule THEN "all"
        ELSE Text(Join(update_mods, ","))

\* a faulty variant: ten installed modules are already too many
UpdateModulesFromTen(changed_modules, installed) ==
    IF changed_modules = <<"all">> THEN "all"
    ELSE LET update_mods == SelectSeq(ModuleList(changed_modules),
                                      LAMBDA m : m \in installed)
         IN  IF Len(update_mods) >= MaxPerModule THEN "all"
             ELSE Text(Join(update_mods, ","))

\* update_modules of module_update
UpdateModules(changed_modules, installed) ==
    IF changed_modules = <<"all">> THEN "all"
    ELSE LET update_mods == SelectSeq(ModuleList(changed_modules),
                                      LAMBDA m : m \in installed)
         IN  IF Len(update_mods) > MaxPerModule THEN "all"
             ELSE Text(Join(update_mods, ","))

\* the ssh.run_in_repo calls of rollback
RollbackCommands ==
    [checkout |-> Command(120, TRUE),
     recreate |-> Command(120, TRUE)]

\* a faulty variant: only the empty old_commit is skipped
RollbackStepOfNone(old_commit, pc, outcome) ==
    LET raises == pc # "start" /\ CommandRaises(RollbackCommands[pc], outcome)
    IN  CASE raises -> At("done", "raise")
          [] pc = "start" ->
                IF old_commit = "" THEN At("done", "return")
                ELSE At("checkout", "return")
          [] pc = "checkout" -> At("recreate", "return")
          [] pc = "recreate" -> At("done", "return")

\* rollback: where the handler goes when the command at pc has ended
RollbackStep(old_commit, pc, outcome) ==
    LET raises == pc # "start" /\ CommandRaises(RollbackCommands[pc], outcome)
    IN  CASE raises -> At("done", "raise")
          [] pc = "start" ->
                IF old_commit \in {"none", ""} THEN At("done", "return")
                ELSE At("checkout", "return")
          [] pc = "checkout" -> At("recreate", "return")
          [] pc = "recreate" -> At("done", "return")

\* github_pr_ready with GitHubClient.mark_pr_ready inlined: get the pull
\* request, raise when it has no node_id, post the GraphQL mutation
GithubPrReadyStep(pc, outcome, node_id) ==
    CASE pc # "start" /\ outcome # "ok" -> At("done", "raise")
      [] pc = "start" -> At("get_pr", "return")
      [] pc = "get_pr" ->
            IF node_id = "" THEN At("done", "raise") ELSE At("mark_ready", "return")
      [] pc = "mark_ready" -> At("done", "return")

HandlerNames == {"module-update", "rollback", "github-pr-ready"}

\* the next position of the handler invocation h when its call has ended
NextStep(h, outcome, installed, node_id) ==
    CASE h.name = "module-update" ->
            ModuleUpdateStep([type |-> h.name,
                              changed_modules |-> Text(h.changed_modules)],
                             h.pc, outcome,
                             UpdateModules(h.changed_modules, installed) # "")
      [] h.name = "rollback" -> RollbackStep(h.old_commit, h.pc, outcome)
      [] h.name = "github-pr-ready" -> GithubPrReadyStep(h.pc, outcome, node_id)

\* what the handler hands to the call it makes at position pc
Argument(h, pc, update_modules) ==
    CASE pc = "update" -> update_modules
      [] pc = "checkout" ->
            IF h.branch # "" THEN "-B " \o h.branch \o " " \o h.old_commit
            ELSE h.old_commit
      [] pc \in {"get_pr", "mark_ready"} -> ToString(h.pr_number)
      [] OTHER -> ""

\* what the handler returns when it leaves position pc by a return
Returned(h, pc) ==
    IF h.name = "module-update"
    THEN Return([modules_updated |-> IF pc = "assets" THEN h.update_modules ELSE ""])
    ELSE Return(<<>>)

NoDetection == [old_commit |-> "", count |-> <<>>, result |-> NoResult]

NoHandler ==
    [name |-> "none", server_host |-> "", changed_modules |-> <<>>,
     old_commit |-> "", branch |-> "", pr_number |-> 0, piped |-> FALSE,
     pc |-> "done", pending |-> "return", update_modules |-> "", log |-> <<>>,
     queried |-> FALSE, stdout |-> <<>>, answers |-> <<>>, result |-> NoResult]

HandlersInit ==
    /\ detected = NoDetection
    /\ handler = NoHandler

\* what the remote commands of detect_modules may answer
DetectAnswers ==
    { [count |-> c, diffs |-> <<d1, d2, <<>>, d4>>, manifests |-> m,
       docker |-> k, broken |-> b] :
        c \in {<<"lost">>, <<"3", "\n">>, <<"2", "5", "0", "\n">>,
               <<"2", "5", "1", "\n">>},
        d1 \in {<<>>, <<<<"src", "custom", "tut_hr", "models", "hr.py">>,
                        <<"src", "custom", "README.md">>>>},
        d2 \in {<<>>, <<<<"src", "enterprise", "mod_a", "views.xml">>>>},
        d4 \in {<<>>, <<<<"src", "community", "odoo", "addons", "mod_a", "x.py">>>>},
        m \in {{<<"src/custom", "tut_hr">>},
               {<<"src/custom", "tut_hr">>, <<"src/enterprise", "mod_a">>}},
        k \in {<<>>, <<"Dockerfile", "\n">>},
        b \in BOOLEAN }

\* the detect-modules job of the deploy pipeline, the first of the handlers here
detect_modules(server_host, old_commit, new_commit, answers) ==
    /\ detected = NoDetection
    /\ handler = NoHandler
    /\ detected' =
          [old_commit |-> old_commit, count |-> answers.count,
           result |-> DetectModules(config, server_host, old_commit, new_commit,
                                    answers)]
    /\ UNCHANGED <<handler, handlerFrame>>

\* a handler is invoked: it resolves its server and goes to its first call, or
\* ends at once
InvokeHandler(name, server_host, changed_modules, old_commit, branch, pr_number, piped) ==
    LET server == resolve_server(config, server_host)
        h == [NoHandler EXCEPT !.name = name, !.server_host = server_host,
                               !.changed_modules = changed_modules,
                               !.old_commit = old_commit, !.branch = branch,
                               !.pr_number = pr_number, !.piped = piped,
                               !.pc = "start"]
        to == NextStep(h, "ok", {}, "")
    IN  /\ handler.pc = "done"
        /\ handler' =
              IF name # "github-pr-ready" /\ server.kind = "raise"
              THEN [h EXCEPT !.pc = "done", !.pending = "raise", !.result = server]
              ELSE IF to.pc = "done"
              THEN [h EXCEPT !.pc = "done", !.pending = to.pending,
                             !.result = Returned(h, "start")]
              ELSE [h EXCEPT !.pc = to.pc,
                             !.log = <<[cmd |-> to.pc, arg |-> Argument(h, to.pc, "")]>>]
        /\ UNCHANGED <<detected, handlerFrame>>

\* the exception a call that ended badly leaves the handler with
Raised(h, outcome) ==
    CASE h.name = "github-pr-ready" ->
            IF outcome = "ok" THEN Raise("ValueError", <<"Cannot get node_id">>)
            ELSE Raise("HTTPError", <<>>)
      [] h.pc = "grep_env" /\ outcome = "fail" ->
            Raise("RuntimeError", <<"Cannot retrieve DB password">>)
      [] OTHER -> Raise("RemoteCommandError", <<outcome>>)

\* the call the handler waits for ends: the handler makes its next call, or
\* returns or raises
CallEnds(outcome, stdout, node_id) ==
    LET to == NextStep(handler, outcome, Installed(stdout), node_id)
        answered == handler.pc = "installed" /\ outcome = "ok"
        h == [handler EXCEPT
                !.queried = @ \/ answered,
                !.stdout = IF answered THEN stdout ELSE @,
                !.update_modules =
                    IF to.pc = "pycache"
                    THEN UpdateModules(handler.changed_modules, Installed(stdout))
                    ELSE @]
    IN  /\ handler.pc # "done"
        /\ handler' =
              IF to.pc = "done"
              THEN [h EXCEPT !.pc = "done", !.pending = to.pending,
                             !.result = IF to.pending = "return"
                                        THEN Returned(h, handler.pc)
                                        ELSE Raised(handler, outcome)]
              ELSE [h EXCEPT !.pc = to.pc,
                             !.log = Append(@, [cmd |-> to.pc,
                                                arg |-> Argument(h, to.pc,
                                                                 h.update_modules)])]
        /\ UNCHANGED <<detected, handlerFrame>>

\* the module-update job
module_update(server_host, changed_modules) ==
    InvokeHandler("module-update", server_host, changed_modules, "", "", 0, FALSE)

\* the module-update job of the deploy pipeline: its changed_modules is what
\* detect-modules returned
PipelineModuleUpdate(server_host) ==
    /\ detected.result.kind = "return"
    /\ InvokeHandler("module-update", server_host,
                     IF detected.result.kind = "return"
                     THEN detected.result.value.changed_modules
                     ELSE <<>>,
                     "", "", 0, TRUE)

\* the rollback job
rollback(server_host, old_commit, branch) ==
    InvokeHandler("rollback", server_host, <<>>, old_commit, branch, 0, FALSE)

\* the github-pr-ready job
github_pr_ready(pr_number) ==
    InvokeHandler("github-pr-ready", "", <<>>, "", "", pr_number, FALSE)

\* eleven installed modules, one more than module_update updates one by one
ManyModules ==
    <<"m01", "m02", "m03", "m04", "m05", "m06", "m07", "m08", "m09", "m10", "m11">>

\* the changed_modules inputs
ChangedModulesInputs ==
    {<<>>, <<"all">>, <<"mod_a", ",", " ", "tut_hr">>, <<" ", ",">>,
     <<"all", ",", "mod_a">>, Join(ManyModules, ",")}

\* the stdout of the installed-modules query
InstalledAnswers ==
    {<<>>, <<"mod_a", "\n", "base", "\n">>, Join(ManyModules, "\n") \o <<"\n">>,
     Join(SubSeq(ManyModules, 1, MaxPerModule), "\n") \o <<"\n">>}

HandlerHosts == {"staging", "staging.example.com", "unknown-host"}

HandlersNext ==
    \/ \E server_host \in HandlerHosts, old_commit \in {"none", "aaa1111"},
          answers \in DetectAnswers :
          detect_modules(server_host, old_commit, "bbb2222", answers)
    \/ \E server_host \in HandlerHosts, changed_modules \in ChangedModulesInputs :
          module_update(server_host, changed_modules)
    \/ \E server_host \in HandlerHosts : PipelineModuleUpdate(server_host)
    \/ \E server_host \in HandlerHosts, old_commit \in {"none", "", "aaa1111"},
          branch \in {"", "staging"} :
          rollback(server_host, old_commit, branch)
    \/ \E pr_number \in {99} : github_pr_ready(pr_number)
    \/ \E outcome \in {"ok", "fail", "timeout"}, stdout \in InstalledAnswers,
          node_id \in {"", "PR_kwDO"} :
          CallEnds(outcome, stdout, node_id)

----------------------------------------------------------------------------
(* worker/handlers/deploy.py: docker-up.  The log holds the remote calls and
   the sleeps of the invocation, answers what each of them ended with. *)

UpAttempts == 3
UpDelay == 5
UpBackoff == 2
StatusProbes == 12
StatusInterval == 5
HttpProbes == 24
HttpInterval == 10

Count(h, cmd) == Cardinality({ i \in 1..Len(h.log) : h.log[i].cmd = cmd })

Call(h, cmd) == [h EXCEPT !.pc = cmd, !.log = Append(@, [cmd |-> cmd, arg |-> ""])]

\* await _sleep(seconds), which returns
Slept(h, seconds) ==
    [h EXCEPT !.log = Append(@, [cmd |-> "sleep", arg |-> ToString(seconds)]),
              !.answers = Append(@, "slept")]

Finish(h, result) ==
    [h EXCEPT !.pc = "done", !.result = result,
              !.pending = IF result.kind = "raise" THEN "raise" ELSE "return"]

\* a faulty variant: one status probe more
StatusBudgetSpentLate(h) == Count(h, "status") >= StatusProbes + 1

\* for _ in range(12) has run its last pass
StatusBudgetSpent(h) == Count(h, "status") >= StatusProbes

\* docker_up from the end of the remote call at h.pc, which answered outcome
\* and, for the status probe, wrote status to stdout: retry(_up, 3, 5.0), the
\* loop over 'docker inspect', then _wait_http
DockerUpStep(h, outcome, status) ==
    LET g == [h EXCEPT !.answers = Append(@, IF h.pc = "status" /\ outcome # "timeout"
                                             THEN status ELSE outcome)]
        ups == Count(h, "up")
    IN  CASE h.pc = "up" ->
                IF outcome = "ok" THEN Call(g, "status")
                ELSE IF ups < UpAttempts
                THEN Call(Slept(g, UpDelay * Power(UpBackoff, ups - 1)), "up")
                ELSE Finish(g, Raise("RemoteCommandError", <<outcome>>))
          [] h.pc = "status" ->
                IF outcome = "timeout"
                THEN Finish(g, Raise("RemoteCommandError", <<outcome>>))
                ELSE IF status = "running" THEN Call(g, "http")
                ELSE IF StatusBudgetSpent(h)
                THEN Finish(Slept(g, StatusInterval),
                            Raise("RuntimeError", <<"Container not running after 60s">>))
                ELSE Call(Slept(g, StatusInterval), "status")
          [] h.pc = "http" ->
                IF outcome = "timeout"
                THEN Finish(g, Raise("RemoteCommandError", <<outcome>>))
                ELSE IF outcome = "ok" THEN Finish(g, Return(<<>>))
                ELSE IF Count(h, "http") < HttpProbes
                THEN Call(Slept(g, HttpInterval), "http")
                ELSE Finish(g, Raise("RuntimeError", <<"HTTP service not responding">>))

\* the docker-up job
docker_up(server_host) ==
    LET server == resolve_server(config, server_host)
        h == [NoHandler EXCEPT !.name = "docker-up", !.server_host = server_host]
    IN  /\ handler.pc = "done"
        /\ handler' = IF server.kind = "raise" THEN Finish(h, server)
                      ELSE Call(h, "up")
        /\ UNCHANGED <<detected, handlerFrame>>

\* the remote call docker_up waits for ends
DockerUpEnds(outcome, status) ==
    /\ handler.name = "docker-up"
    /\ handler.pc # "done"
    /\ handler' = DockerUpStep(handler, outcome, status)
    /\ UNCHANGED <<detected, handlerFrame>>

ContainerStates == {"running", "unknown"}

DockerUpNext ==
    \/ \E server_host \in HandlerHosts : docker_up(server_host)
    \/ \E outcome \in {"ok", "fail", "timeout"}, status \in ContainerStates :
          DockerUpEnds(outcome, status)

----------------------------------------------------------------------------
(* worker/handlers/audit.py: audit-analysis *)

\* what the analysis script wrote to stdout
AnalysisOutputs == {"", "not valid json{", "{\"conflicts\": [], \"stats\": {}}"}

NoConflicts(report) ==
    Return([audit_conflicts |-> 0, audit_critical |-> 0, audit_warning |-> 0,
            audit_report |-> report])

\* what audit_analysis returns for the analysis that ended with outcome and
\* wrote output
AuditResult(outcome, output) ==
    IF outcome # "ok" \/ output = "" THEN NoConflicts("")
    ELSE IF output = "not valid json{" THEN NoConflicts("JSON parse error")
    ELSE NoConflicts("## Audit Analysis Report")

\* audit_analysis from the end of the remote call at h.pc, which answered
\* outcome and, for the analysis, wrote output: upload under check=True, then
\* 'git add -N', the analysis and 'rm -f' without check; a call that times
\* out raises whatever check is
AuditStep(h, outcome, output) ==
    LET g == [h EXCEPT !.answers = Append(@, outcome),
                       !.stdout = IF h.pc = "analyze" THEN <<output>> ELSE @]
        raises == outcome = "timeout" \/ (h.pc = "upload" /\ outcome # "ok")
    IN  CASE raises -> Finish(g, Raise("RemoteCommandError", <<outcome>>))
          [] h.pc = "upload" -> Call(g, "git_add")
          [] h.pc = "git_add" -> Call(g, "analyze")
          [] h.pc = "analyze" -> Call(g, "rm")
          [] h.pc = "rm" -> Finish(g, AuditResult(g.answers[3], g.stdout[1]))

\* the audit-analysis job
audit_analysis(changed_modules, server_host) ==
    LET server == resolve_server(config, IF server_host # "" THEN server_host
                                         ELSE "kozak_demo")
        h == [NoHandler EXCEPT !.name = "audit-analysis",
                               !.server_host = server_host,
                               !.changed_modules = changed_modules]
    IN  /\ handler.pc = "done"
        /\ handler' = IF server.kind = "raise" THEN Finish(h, server)
                      ELSE IF changed_modules = <<>> THEN Finish(h, NoConflicts(""))
                      ELSE Call(h, "upload")
        /\ UNCHANGED <<detected, handlerFrame>>

\* the remote call audit_analysis waits for ends
AuditEnds(outcome, output) ==
    /\ handler.name = "audit-analysis"
    /\ handler.pc # "done"
    /\ handler' = AuditStep(handler, outcome, output)
    /\ UNCHANGED <<detected, handlerFrame>>

AuditNext ==
    \/ \E changed_modules \in {<<>>, <<"sale">>, <<"sale", ",", "crm">>},
          server_host \in {"", "staging", "unknown-host"} :
          audit_analysis(changed_modules, server_host)
    \/ \E outcome \in {"ok", "fail", "timeout"}, output \in AnalysisOutputs :
          AuditEnds(outcome, output)

----------------------------------------------------------------------------
(* worker/handlers/github.py: _parse_review_score.  A comment body is a
   sequence of pieces: an HTML tag, a word, a run of other text, one digit. *)

MaxBody == 4

\* the emoji of the second pattern
Medal == "U+1F3C5"

\* the pieces r"<[^>]+>" matches
HtmlTags == {"<td>", "</td>", "<strong>"}

\* the pieces in which r"[Ss]core" finds a match
ScoreWords == {"Score", "score", "underscored"}

BodyPieces == {"<td>", "Score", "underscored", ": ", Medal, "0", "1", "5", "9"}

\* re.sub(r"<[^>]+>", "", body)
StripTags(body) == SelectSeq(body, LAMBDA piece : piece \notin HtmlTags)

\* the digits \d+ takes, greedily, from position i on
RECURSIVE DigitRun(_, _)
DigitRun(text, i) ==
    IF i <= Len(text) /\ IsDigit(text[i])
    THEN <<text[i]>> \o DigitRun(text, i + 1)
    ELSE <<>>

\* re.search(word [^0-9]* (\d+), text).group(1) for the words given, <<>> when
\* nothing matches: the leftmost word that has a digit after it, then the first
\* run of digits after that word
SearchNumber(text, words) ==
    LET starts == { i \in 1..Len(text) :
                      /\ text[i] \in words
                      /\ \E j \in (i + 1)..Len(text) : IsDigit(text[j]) }
    IN  IF starts = {} THEN <<>>
        ELSE LET i == CHOOSE k \in starts : \A m \in starts : k <= m
                 j == CHOOSE k \in (i + 1)..Len(text) :
                         /\ IsDigit(text[k])
                         /\ \A m \in (i + 1)..(k - 1) : ~IsDigit(text[m])
             IN  DigitRun(text, j)

\* _parse_review_score
parse_review_score(body) ==
    LET clean == StripTags(body)
        first == SearchNumber(clean, ScoreWords)
        match == IF first # <<>> THEN first ELSE SearchNumber(clean, {Medal})
        score == ToInt(match)
    IN  IF match = <<>> THEN 0
        ELSE IF score > 10 THEN score \div 10
        ELSE score

RECURSIVE BodiesOf(_)
BodiesOf(n) ==
    IF n = 0 THEN {<<>>}
    ELSE LET shorter == BodiesOf(n - 1)
         IN  shorter \cup { Append(b, piece) :
                              b \in { s \in shorter : Len(s) = n - 1 },
                              piece \in BodyPieces }

Bodies == BodiesOf(MaxBody)

NoScore == [body |-> <<"none">>, score |-> 0]

ScoreInit == scored = NoScore

\* the review comment of a pull request is parsed
ParseReviewScore(body) ==
    /\ scored = NoScore
    /\ scored' = [body |-> body, score |-> parse_review_score(body)]
    /\ UNCHANGED scoreFrame

ScoreNext == \E body \in Bodies : ParseReviewScore(body)

----------------------------------------------------------------------------
(* worker/config.py: AppConfig.resolve_server over the server registries *)

\* a server as from_env registers it under a name: the defaults, and the host
RegisteredServer(name, host) ==
    [host |-> host, ssh_user |-> "deploy", repo_dir |-> "/opt/odoo-enterprise",
     db_name |-> "odoo19", container |-> name]

RegistryHosts == {"staging.example.com", "10.0.0.5", "staging"}

\* every registry of servers: any of the names, each with any of the hosts
Registries ==
    UNION { { [n \in names |-> RegisteredServer(n, hosts[n])] :
                hosts \in [names -> RegistryHosts] } :
            names \in SUBSET {"staging", "production", "kozak_demo"} }

ResolveConfigs == { [TestConfig EXCEPT !.servers = r] : r \in Registries }

ResolveInputs ==
    {"staging", "production", "staging.example.com", "10.0.0.5", "unknown-host"}

NotResolved == [server_host |-> "", result |-> NoResult]

ResolveInit == resolved = NotResolved

\* a handler resolves the server_host of its job
ResolveServer(server_host) ==
    /\ resolved' = [server_host |-> server_host,
                    result |-> resolve_server(config, server_host)]
    /\ UNCHANGED resolveFrame

ResolveNext == \E server_host \in ResolveInputs : ResolveServer(server_host)

----------------------------------------------------------------------------
(* worker/handlers/notify.py: create-odoo-task, worker/odoo_client.py, and the
   webhook Odoo fires when the task is done *)

\* job.process_instance_key: stand-ins for the engine's 64-bit keys
ProcessInstanceKeys == {22517, 22518}

\* the ids Odoo gives to the tasks it creates
OdooIds == {42, 57}

\* the JSON Odoo's webhook answers with after creating task n; "error" is a
\* failed call or an HTTP error status
CreateAnswers(n) ==
    { [kind |-> "json", data |-> [id |-> JInt(n)]],
      [kind |-> "json", data |-> [task_id |-> JInt(n)]],
      [kind |-> "json", data |-> [id |-> JInt(0)]],
      [kind |-> "json", data |-> [status |-> JStr("ok")]],
      [kind |-> "json", data |-> [id |-> JNull]],
      [kind |-> "error"] }

\* OdooClient.create_task: int(data.get('id', data.get('task_id', 0)))
create_task(answer) ==
    IF answer.kind = "error" THEN Raise("HTTPError", <<>>)
    ELSE LET got == Get(answer.data, "id", Get(answer.data, "task_id", JInt(0)))
         IN  IF got.t = "int" THEN Return(got.n)
             ELSE Raise("TypeError", <<"int() argument">>)

\* a faulty variant: the process instance key whatever Odoo returned
CorrelationIdOfInstance(task_id, process_instance_key) ==
    ToString(process_instance_key)

\* str(task_id) if task_id else str(job.process_instance_key)
CorrelationId(task_id, process_instance_key) ==
    IF task_id # 0 THEN ToString(task_id) ELSE ToString(process_instance_key)

NoOdooTask == [pik |-> 0, id |-> 0, answer |-> [kind |-> "none"], result |-> NoResult]

CorrelationInit == odooTask = NoOdooTask

\* the create-odoo-task job: Odoo creates task n, stamped with the job's
\* process instance key, and answers
create_odoo_task(process_instance_key, n, answer) ==
    LET task_id == create_task(answer) IN
    /\ whPc = "idle"
    /\ odooTask' =
          [pik |-> process_instance_key, id |-> n, answer |-> answer,
           result |-> IF task_id.kind = "raise" THEN task_id
                      ELSE Return([odoo_task_id |->
                                     CorrelationId(task_id.value,
                                                   process_instance_key)])]
    /\ UNCHANGED <<coreVars, hdlVars, scoreVars, resVars>>

\* the request Odoo's "done" action sends for the task: authenticated, with the
\* task's id, the process instance key it was stamped with, or both
DoneRequest(t, carries) ==
    [kind |-> "odoo",
     body |-> JsonBody(Optional("task_id", JInt(t.id), carries \in {"id", "both"})
                       @@ Optional("process_instance_key", JInt(t.pik),
                                   carries \in {"pik", "both"})),
     headers |-> [Authorization |-> <<"Bearer ", OdooToken>>],
     query |-> <<>>]

\* the task is closed in Odoo and the webhook server handles the request
OdooTaskDone(carries, engineOk) ==
    /\ whPc = "idle"
    /\ odooTask.result.kind = "return"
    /\ Respond(DoneRequest(odooTask, carries),
               OdooResult(DoneRequest(odooTask, carries), config, engineOk, "200"))

CorrelationNext ==
    \/ \E process_instance_key \in ProcessInstanceKeys, n \in OdooIds :
          \E answer \in CreateAnswers(n) :
             create_odoo_task(process_instance_key, n, answer)
    \/ \E carries \in {"id", "pik", "both"}, engineOk \in BOOLEAN :
          OdooTaskDone(carries, engineOk)
    \/ RequestDone

----------------------------------------------------------------------------
(* specifications *)

\* the added components at rest
ExtInit ==
    /\ ChannelInit /\ SshInit /\ RunInit /\ RetryInit /\ GitInit
    /\ HandlersInit /\ ScoreInit /\ ResolveInit /\ CorrelationInit

IdleTask == [type |-> "module-update", changed_modules |-> ""]

\* the webhook ingress alone, under every configuration
WebhookSpecInit ==
    \E cfg \in AppConfigs, w \in {"python-worker"}, t \in {IdleTask} :
        /\ config = cfg /\ worker = w /\ task = t
        /\ WebhookInit /\ TokenInit /\ RuntimeInit /\ PipelineInit
        /\ ExtInit

WebhookSpec == WebhookSpecInit /\ [][WebhookNext]_vars

\* the token managers alone
TokenSpecInit ==
    \E cfg \in {TestConfig}, w \in {"python-worker"}, t \in {IdleTask} :
        /\ config = cfg /\ worker = w /\ task = t
        /\ WebhookInit /\ TokenInit /\ RuntimeInit /\ PipelineInit
        /\ ExtInit

TokenSpec == TokenSpecInit /\ [][TokenNext]_vars

\* worker.py's TokenManager alone: the callers of get_token() and
\* refresh_token(), the lock and the token endpoint
LockNext ==
    \/ \E t \in Threads, op \in {"get", "refresh"} : CallTokenManager(t, op)
    \/ \E t \in Threads : EnterLock(t)
    \/ \E t \in Threads, ans \in TokenAnswers : EndpointAnswers(t, ans)
    \/ Tick

LockSpec == TokenSpecInit /\ [][LockNext]_vars

\* one job worker, its supervising loop and the engine's jobs
RuntimeSpecInit ==
    \E cfg \in {TestConfig}, w \in Workers, t \in {IdleTask} :
        /\ config = cfg /\ worker = w /\ task = t
        /\ WebhookInit /\ TokenInit /\ RuntimeInit /\ PipelineInit
        /\ ExtInit

RuntimeSpec == RuntimeSpecInit /\ [][RuntimeNext]_vars

\* one pipeline job, its handler's remote commands and the engine's job timeout
PipelineSpecInit ==
    \E cfg \in {TestConfig}, w \in {"python-worker"}, t \in Tasks :
        /\ config = cfg /\ worker = w /\ task = t
        /\ WebhookInit /\ TokenInit /\ RuntimeInit /\ PipelineInit
        /\ ExtInit

PipelineSpec == PipelineSpecInit /\ [][PipelineNext]_vars

\* the engine channel of worker/auth.py, its token manager and the RPCs sent
ChannelSpecInit ==
    \E cfg \in {TestConfig}, w \in {"python-worker"}, t \in {IdleTask} :
        /\ config = cfg /\ worker = w /\ task = t
        /\ WebhookInit /\ TokenInit /\ RuntimeInit /\ PipelineInit
        /\ ExtInit

ChannelSpec == ChannelSpecInit /\ [][ChannelNext]_vars

\* the SSH client shared by concurrent handlers
SshSpecInit ==
    \E cfg \in {TestConfig}, w \in {"python-worker"}, t \in {IdleTask} :
        /\ config = cfg /\ worker = w /\ task = t
        /\ WebhookInit /\ TokenInit /\ RuntimeInit /\ PipelineInit
        /\ ExtInit

SshSpec == SshSpecInit /\ [][SshNext]_vars

\* run() on a connection, for every command outcome
RunSpecInit ==
    \E cfg \in {TestConfig}, w \in {"python-worker"}, t \in {IdleTask} :
        /\ config = cfg /\ worker = w /\ task = t
        /\ WebhookInit /\ TokenInit /\ RuntimeInit /\ PipelineInit
        /\ ExtInit

RunSpec == RunSpecInit /\ [][RunNext]_vars

\* retry() around an operation that may fail
RetrySpecInit ==
    \E cfg \in {TestConfig}, w \in {"python-worker"}, t \in {IdleTask} :
        /\ config = cfg /\ worker = w /\ task = t
        /\ WebhookInit /\ TokenInit /\ RuntimeInit /\ PipelineInit
        /\ ExtInit

RetrySpec == RetrySpecInit /\ [][RetryNext]_vars

\* the deploy state files, the origin and the handlers that read and write them
GitSpecInit ==
    \E cfg \in {TestConfig}, w \in {"python-worker"}, t \in {IdleTask} :
        /\ config = cfg /\ worker = w /\ task = t
        /\ WebhookInit /\ TokenInit /\ RuntimeInit /\ PipelineInit
        /\ ExtInit

GitSpec == GitSpecInit /\ [][GitNext]_vars

\* the deploy handlers and github-pr-ready, call by call
HandlersSpecInit ==
    \E cfg \in {TestConfig}, w \in {"python-worker"}, t \in {IdleTask} :
        /\ config = cfg /\ worker = w /\ task = t
        /\ WebhookInit /\ TokenInit /\ RuntimeInit /\ PipelineInit
        /\ ExtInit

HandlersSpec == HandlersSpecInit /\ [][HandlersNext]_vars

\* _parse_review_score over every comment body
ScoreSpecInit ==
    \E cfg \in {TestConfig}, w \in {"python-worker"}, t \in {IdleTask} :
        /\ config = cfg /\ worker = w /\ task = t
        /\ WebhookInit /\ TokenInit /\ RuntimeInit /\ PipelineInit
        /\ ExtInit

ScoreSpec == ScoreSpecInit /\ [][ScoreNext]_vars

\* resolve_server under every registry of servers
ResolveSpecInit ==
    \E cfg \in ResolveConfigs, w \in {"python-worker"}, t \in {IdleTask} :
        /\ config = cfg /\ worker = w /\ task = t
        /\ WebhookInit /\ TokenInit /\ RuntimeInit /\ PipelineInit
        /\ ExtInit

ResolveSpec == ResolveSpecInit /\ [][ResolveNext]_vars

\* a task created in Odoo and the webhook that reports it done
CorrelationSpecInit ==
    \E cfg \in {TestConfig}, w \in {"python-worker"}, t \in {IdleTask} :
        /\ config = cfg /\ worker = w /\ task = t
        /\ WebhookInit /\ TokenInit /\ RuntimeInit /\ PipelineInit
        /\ ExtInit

CorrelationSpec == CorrelationSpecInit /\ [][CorrelationNext]_vars

\* the docker-up handler and the remote calls it waits for
DockerUpSpecInit ==
    \E cfg \in {TestConfig}, w \in {"python-worker"}, t \in {IdleTask} :
        /\ config = cfg /\ worker = w /\ task = t
        /\ WebhookInit /\ TokenInit /\ RuntimeInit /\ PipelineInit
        /\ ExtInit

DockerUpSpec == DockerUpSpecInit /\ [][DockerUpNext]_vars

\* the upstream-sync handlers that write and read the synced SHAs
SyncSpecInit ==
    \E cfg \in {SyncConfig}, w \in {"python-worker"}, t \in {IdleTask} :
        /\ config = cfg /\ worker = w /\ task = t
        /\ WebhookInit /\ TokenInit /\ RuntimeInit /\ PipelineInit
        /\ ExtInit

SyncSpec == SyncSpecInit /\ [][SyncNext]_vars

\* the audit-analysis handler and the remote calls it waits for
AuditSpecInit ==
    \E cfg \in {SyncConfig}, w \in {"python-worker"}, t \in {IdleTask} :
        /\ config = cfg /\ worker = w /\ task = t
        /\ WebhookInit /\ TokenInit /\ RuntimeInit /\ PipelineInit
        /\ ExtInit

AuditSpec == AuditSpecInit /\ [][AuditNext]_vars

----------------------------------------------------------------------------
(* Properties of the webhook ingress *)

GithubAnswered == whPc = "responded" /\ request.kind = "github"

SignatureHeader == Get(request.headers, "X-Hub-Signature-256", <<>>)

\* the header is 'sha256=' followed by the hex HMAC of the raw body under the
\* configured secret
SignatureVerifies ==
    SignatureHeader = <<"sha256=", HexDigest(config.webhook_secret, request.body)>>

Signed == config.webhook_secret # "" /\ SignatureVerifies

EventType == Get(request.headers, "X-GitHub-Event", "")

ReqPayload == request.body.value

ReqPr == Get(ReqPayload, "pull_request", <<>>)

WellShaped ==
    /\ request.body.kind = "json"
    /\ IsDict(ReqPayload)
    /\ IsDict(ReqPr)
    /\ IsDict(Get(ReqPr, "base", <<>>))

BaseRef == Get(Get(ReqPr, "base", <<>>), "ref", "")
ReqAction == Get(ReqPayload, "action", "")
HeadRef == Get(Get(ReqPr, "head", <<>>), "ref", "")
PrNumber == Get(ReqPr, "number", 0)

Routable ==
    /\ EventType = "pull_request"
    /\ WellShaped
    /\ BaseRef = "staging"
    /\ ReqAction \in {"opened", "reopened", "ready_for_review", "synchronize"}

Ignored ==
    /\ response.status = 200
    /\ "status" \in DOMAIN response.body
    /\ response.body.status = "ignored"

NothingSent == published = <<>> /\ rejected = <<>> /\ cancelled = <<>>

\* C3 (as claimed): a GitHub request whose signature header is missing, lacks
\* the 'sha256=' prefix or differs from the expected HMAC publishes nothing
\* and, when a secret is configured, is answered 401.
C3_UnverifiedIs401 ==
    GithubAnswered /\ ~SignatureVerifies =>
        /\ published = <<>>
        /\ (config.webhook_secret # "" => response.status = 401)

PrEventCase ==
    /\ GithubAnswered /\ Signed
    /\ EventType = "pull_request" /\ WellShaped /\ BaseRef = "staging"
    /\ ReqAction \in {"opened", "reopened", "ready_for_review"}

StagingFieldsIn(variables) ==
    "staging" \in DOMAIN config.servers =>
        /\ {"staging_host", "staging_ssh_user", "staging_repo_dir",
            "staging_db", "staging_container"} \subseteq DOMAIN variables
        /\ variables["staging_host"] = config.servers["staging"].host
        /\ variables["staging_ssh_user"] = config.servers["staging"].ssh_user
        /\ variables["staging_repo_dir"] = config.servers["staging"].repo_dir
        /\ variables["staging_db"] = config.servers["staging"].db_name
        /\ variables["staging_container"] = config.servers["staging"].container

IsPrEventMessage(m) ==
    /\ m.name = "msg_pr_event"
    /\ m.correlation_key = HeadRef
    /\ m.variables["pr_number"] = PrNumber
    /\ m.variables["head_branch"] = HeadRef
    /\ StagingFieldsIn(m.variables)

PrSubObjectsOk ==
    /\ IsDict(Get(ReqPayload, "repository", <<>>))
    /\ IsDict(Get(ReqPr, "user", <<>>))
    /\ IsDict(Get(ReqPr, "head", <<>>))

DigitChar(d) ==
    CASE d = 0 -> "0" [] d = 1 -> "1" [] d = 2 -> "2" [] d = 3 -> "3"
      [] d = 4 -> "4" [] d = 5 -> "5" [] d = 6 -> "6" [] d = 7 -> "7"
      [] d = 8 -> "8" [] d = 9 -> "9"

RECURSIVE DecimalString(_)
DecimalString(n) ==
    IF n < 10 THEN DigitChar(n)
    ELSE DecimalString(n \div 10) \o DigitChar(n % 10)

PrUpdatedCase ==
    /\ GithubAnswered /\ Signed
    /\ EventType = "pull_request" /\ WellShaped /\ BaseRef = "staging"
    /\ ReqAction = "synchronize"

IsPrUpdatedMessage(m) ==
    /\ m.name = "msg_pr_updated"
    /\ m.correlation_key = DecimalString(PrNumber)

OdooAnswered == whPc = "responded" /\ request.kind = "odoo"

\* the bearer token of the request: the Authorization header, else ?token=
PresentedToken ==
    LET header == Get(request.headers, "Authorization", <<>>) IN
    IF header # <<>>
    THEN (IF header[1] = "Bearer " THEN Strip(Tail(header)) ELSE header)
    ELSE Get(request.query, "token", <<>>)

ConfiguredToken ==
    IF config.odoo_webhook_token = "" THEN <<>> ELSE <<config.odoo_webhook_token>>

\* C10 (as claimed): an Odoo request whose bearer token differs from the
\* configured shared secret is answered 401 and neither publishes nor
\* cancels, whatever the configuration of the secret.
C10_WrongTokenIs401 ==
    OdooAnswered /\ PresentedToken # ConfiguredToken =>
        response.status = 401 /\ NothingSent

----------------------------------------------------------------------------
\* the variables hold the settings of the configured server name under the
\* keys prefixed with the name
SettingsIn(variables, name) ==
    LET srv == config.servers[name]
        Held(key) == IF name \o key \in DOMAIN variables
                   THEN <<variables[name \o key]>> ELSE <<>>
    IN  /\ Held("_host") = <<srv.host>>
        /\ Held("_ssh_user") = <<srv.ssh_user>>
        /\ Held("_repo_dir") = <<srv.repo_dir>>
        /\ Held("_db") = <<srv.db_name>>
        /\ Held("_container") = <<srv.container>>

SettingKeys(name) ==
    { name \o key : key \in {"_host", "_ssh_user", "_repo_dir", "_db", "_container"} }

\* C38: the variables of every published msg_pr_event hold the settings of
\* each configured server under the keys prefixed with its name, and none of
\* the keys of a server that is not configured.
C38_EveryConfiguredServerIsIn ==
    \A i \in DOMAIN published :
        published[i].name = "msg_pr_event" =>
            \A name \in {"staging", "production", "kozak_demo"} :
                IF name \in DOMAIN config.servers
                THEN SettingsIn(published[i].variables, name)
                ELSE SettingKeys(name) \cap DOMAIN published[i].variables = {}

----------------------------------------------------------------------------
(* Properties of the Odoo webhook *)

\* what the request body says, read as the claims read it: a field that is
\* absent, null or "" carries no value
OdooDictBody == request.body.kind = "json" /\ IsDict(request.body.value)

OdooField(k) == Get(ReqPayload, k, JNull)

JsonNonEmpty(v) == v.t = "int" \/ (v.t = "str" /\ v.s # "")

Rendered(v) == IF v.t = "int" THEN DecimalString(v.n) ELSE v.s

CorrelationFields ==
    <<"task_id", "process_instance_key", "x_studio_camunda_process_instance_key">>

OdooHasKey == \E i \in 1..3 : JsonNonEmpty(OdooField(CorrelationFields[i]))

\* the first non-empty of task_id, process_instance_key and
\* x_studio_camunda_process_instance_key, as a string
FirstNonEmptyKey ==
    LET i == CHOOSE i \in 1..3 :
                 /\ JsonNonEmpty(OdooField(CorrelationFields[i]))
                 /\ \A j \in 1..(i - 1) : ~JsonNonEmpty(OdooField(CorrelationFields[j]))
    IN Rendered(OdooField(CorrelationFields[i]))

\* the process-instance key of the body
BodyPik ==
    IF JsonNonEmpty(OdooField("process_instance_key"))
    THEN Rendered(OdooField("process_instance_key"))
    ELSE Rendered(OdooField("x_studio_camunda_process_instance_key"))

OdooAuthenticated == ConfiguredToken # <<>> /\ PresentedToken = ConfiguredToken

BodyAction == Get(ReqPayload, "action", JNull)
QueryAction == Get(request.query, "action", "")

\* action=cancel given in the body, or as ?action= when the body names none
CancelAsked ==
    \/ BodyAction = JStr("cancel")
    \/ "action" \notin DOMAIN ReqPayload /\ QueryAction = "cancel"

\* no cancel anywhere in the request
NoCancelAnywhere == BodyAction # JStr("cancel") /\ QueryAction # "cancel"

\* C11 (as claimed, for a publish the engine accepts): an authenticated Odoo
\* request whose action is not cancel and which carries a correlation field
\* publishes exactly one msg_odoo_task_done whose correlation key is the
\* first non-empty of task_id / process_instance_key /
\* x_studio_camunda_process_instance_key, and the response echoes that key.
C11_TaskDoneByFirstNonEmptyKey ==
    OdooAnswered /\ OdooAuthenticated /\ OdooDictBody /\ NoCancelAnywhere
    /\ OdooHasKey /\ rejected = <<>> =>
        /\ Len(published) = 1
        /\ published[1].name = "msg_odoo_task_done"
        /\ published[1].correlation_key = FirstNonEmptyKey
        /\ cancelled = <<>>
        /\ response.status = 200
        /\ "correlation_key" \in DOMAIN response.body
        /\ response.body.correlation_key = FirstNonEmptyKey

\* C12 (as claimed): an authenticated Odoo request with action=cancel that
\* carries any of the three correlation fields sends one cancellation
\* request (to /v2/process-instances/<pik>/cancellation when the body names
\* a process instance) and never publishes msg_odoo_task_done.
C12_CancelNeverPublishes ==
    OdooAnswered /\ OdooAuthenticated /\ OdooDictBody /\ CancelAsked
    /\ OdooHasKey =>
        /\ published = <<>> /\ rejected = <<>>
        /\ Len(cancelled) = 1
        /\ cancelled[1].method = "POST"
        /\ BodyPik # "" =>
              cancelled[1].path = "/v2/process-instances/" \o BodyPik \o "/cancellation"

\* C13 (as claimed): an authenticated Odoo request whose body is not valid
\* JSON, or in which none of the three correlation fields carries a
\* non-empty value, is answered 400 and neither publishes nor cancels.
C13_NoKeyIs400 ==
    OdooAnswered /\ OdooAuthenticated
    /\ (request.body.kind = "invalid" \/ (OdooDictBody /\ ~OdooHasKey)) =>
        response.status = 400 /\ NothingSent

----------------------------------------------------------------------------
(* Properties of the engine channel *)

\* C14 (as claimed): every RPC sent over a channel built in an OAuth2 mode,
\* unary or streaming, carries exactly one 'authorization' entry, and it is
\* 'Bearer <t>' for the token t the token manager held when the call was made.
C14_EveryRpcCarriesCurrentToken ==
    rpc.method # "none" /\ channel.mode \in {"oauth_plain", "oauth_tls"} =>
        rpc.metadata = <<Authorization(rpc.manager_token)>>

----------------------------------------------------------------------------

(* Properties of the SSH client *)

\* C15 (as claimed): at no time are two connections with the same
\* (ssh_user, host, ssh_port) live; in particular a connection that has been
\* replaced in the pool is no longer live.
C15_OneLiveConnectionPerKey ==
    \A i, j \in DOMAIN conns :
        conns[i].key = conns[j].key /\ conns[i].live /\ conns[j].live => i = j

ExitedWith(n) == ran.remote.kind = "exit" /\ ran.remote.exit_status = JInt(n)

\* C16: a command that outlasts its timeout makes run() raise; a command that
\* exits with status n makes run(check=False) return the CommandResult with
\* the command's output and exit_code n (success exactly when n = 0), and
\* makes run(check=True) raise RemoteCommandError when n is not 0 and return
\* that same CommandResult when n is 0.
C16_RunReturnsExitCodeUnlessChecked ==
    LET r == ran.remote
        res == ran.result
    IN /\ r.kind = "timeout" => res.kind = "raise"
       /\ \A n \in 0..2 : ExitedWith(n) =>
             IF ran.check /\ n # 0
             THEN res.kind = "raise" /\ res.class = "RemoteCommandError"
             ELSE /\ res = Return(CommandResult(r.stdout, r.stderr, n))
                  /\ success(res.value) <=> n = 0

C16_Witness ==
    /\ ~ran.check /\ ExitedWith(1)
    /\ ran.result.kind = "return"
    /\ ran.result.value.exit_code = 1

\* C17: when close() returns, every connection the pool held has had close()
\* called on it and the pool is empty; the pool never holds a closed
\* connection, and _get_connection never hands one to run().
C17_CloseEmptiesThePool ==
    /\ [](\A k \in DOMAIN pool : ~conns[pool[k]].closed)
    /\ [][\A c \in Callers :
            /\ (caller[c].op = "close" /\ caller[c].pc = "lock"
                /\ caller'[c].pc = "idle") =>
                  /\ pool' = <<>>
                  /\ \A k \in DOMAIN pool : conns'[pool[k]].closed
            /\ (caller[c].pc \in {"probe", "connect"} /\ caller'[c].pc = "exec") =>
                  ~conns'[caller'[c].conn].closed]_vars

\* after a close() of a pooled connection, a run() for the same key is
\* executing on a connection opened afresh
C17_Witness ==
    \E c \in Callers, i \in DOMAIN conns :
        /\ caller[c].pc = "exec"
        /\ conns[i].closed
        /\ conns[i].key = PoolKey(caller[c].server)
        /\ caller[c].conn # i
        /\ ~conns[caller[c].conn].closed
        /\ pool[PoolKey(caller[c].server)] = caller[c].conn

\* the caller c is in a run() whose _get_connection found the pooled
\* connection of its server gone
FindsPooledGone(c) ==
    /\ caller[c].pc = "probe"
    /\ ~conns[pool[PoolKey(caller[c].server)]].live

\* the caller c is in a run() about to connect, after a connection of its
\* server has gone and has been dropped from the pool
ConnectsAfterGone(c) ==
    /\ caller[c].pc = "connect"
    /\ \E i \in DOMAIN conns :
          /\ conns[i].key = PoolKey(caller[c].server)
          /\ ~conns[i].live /\ ~conns[i].closed

\* the caller c leaves _get_connection with a connection opened in this step,
\* which is the pooled one of its server
OpensPooled(c) ==
    /\ caller'[c].pc = "exec"
    /\ Len(conns') = Len(conns) + 1
    /\ caller'[c].conn = Len(conns')
    /\ conns'[Len(conns')].live
    /\ PoolKey(caller[c].server) \in DOMAIN pool'
    /\ pool'[PoolKey(caller[c].server)] = caller'[c].conn

\* C31, as stated: the run() that finds the pooled connection of its server
\* failed removes it from the pool and executes its command on a newly opened
\* connection, which becomes the pooled one
C31_FailedIsAlwaysReplaced ==
    [][\A c \in Callers :
          /\ FindsPooledGone(c) /\ caller'[c] # caller[c] =>
                PoolKey(caller[c].server) \notin DOMAIN pool' /\ caller'[c].pc = "connect"
          /\ ConnectsAfterGone(c) /\ caller'[c] # caller[c] => OpensPooled(c)]_vars

\* C31, amended: the run() that finds the pooled connection of its server
\* failed removes it from the pool and tries to connect; if the connection is
\* opened it becomes the pooled one and the command is executed on it, and if
\* not, run() raises with no connection pooled for the server.  A command that
\* ends, with whatever exit status, leaves the pool as it is.
C31_FailedIsReplacedOnConnect ==
    [][\A c \in Callers :
          /\ FindsPooledGone(c) /\ caller'[c] # caller[c] =>
                PoolKey(caller[c].server) \notin DOMAIN pool' /\ caller'[c].pc = "connect"
          /\ caller[c].pc = "connect" /\ caller'[c] # caller[c] =>
                \/ OpensPooled(c)
                \/ /\ caller'[c] = IdleCaller
                   /\ PoolKey(caller[c].server) \notin DOMAIN pool'
                   /\ conns' = conns
          /\ caller[c].pc = "exec" /\ caller'[c] # caller[c] =>
                pool' = pool /\ conns' = conns]_vars

\* a command runs on the connection that replaced a failed one of its server
C31_Witness ==
    \E c \in Callers :
       /\ caller[c].pc = "exec"
       /\ PoolKey(caller[c].server) \in DOMAIN pool
       /\ pool[PoolKey(caller[c].server)] = caller[c].conn
       /\ \E i \in 1..(caller[c].conn - 1) :
             /\ conns[i].key = PoolKey(caller[c].server)
             /\ ~conns[i].live /\ ~conns[i].closed

----------------------------------------------------------------------------

(* Properties of retry() *)

Invocations == Len(retrying.outcomes)

Failed(i) == retrying.outcomes[i].kind = "raise"

\* C18: retry() with max_attempts >= 1 never invokes func more than
\* max_attempts times; when it returns, the last invocation is the only one
\* that succeeded and its value is the result; when max_attempts invocations
\* have all failed, it raises the exception of the last of them, having
\* invoked func exactly max_attempts times.
C18_AtMostMaxAttempts ==
    retrying.pc # "idle" /\ retrying.max_attempts >= 1 =>
        /\ Invocations <= retrying.max_attempts
        /\ retrying.pc = "returned" =>
              /\ Invocations >= 1
              /\ retrying.result = retrying.outcomes[Invocations]
              /\ retrying.result.kind = "return"
              /\ \A i \in 1..(Invocations - 1) : Failed(i)
        /\ (Invocations = retrying.max_attempts
            /\ \A i \in 1..Invocations : Failed(i)) =>
              /\ retrying.pc = "raised"
              /\ retrying.result = retrying.outcomes[retrying.max_attempts]

\* three attempts, the first two fail with an Exception, the third fails too
C18_Witness ==
    /\ retrying.pc = "raised"
    /\ retrying.max_attempts = 3
    /\ Invocations = 3
    /\ \A i \in 1..3 : Failed(i) /\ IsException(retrying.outcomes[i])
    /\ retrying.result = retrying.outcomes[3]
    /\ retrying.slept = <<5, 10>>

Sleeps == Len(retrying.slept)

Finished == retrying.pc \in {"returned", "raised"}

\* sleep k lasts delay * backoff^(k-1)
Geometric ==
    \A k \in 1..Sleeps :
        retrying.slept[k] = retrying.delay * Power(retrying.backoff, k - 1)

\* C33 (as claimed): when retry() with max_attempts >= 1 has ended, the
\* number of sleeps is the number of invocations minus one, and the sleep
\* after failed attempt k lasted delay * backoff^(k-1).
C33_SleepsAreInvocationsMinusOne ==
    Finished /\ retrying.max_attempts >= 1 =>
        /\ Sleeps = Invocations - 1
        /\ Geometric

\* C33 (amended): the k-th sleep lasts delay * backoff^(k-1); before every
\* invocation there have been as many sleeps as invocations, so one sleep
\* lies between two consecutive invocations; when retry() ends by a return
\* or by an exception of func after at least one invocation, there is one
\* sleep fewer than invocations, hence none after the last one; when a
\* sleep is cancelled retry() ends with as many sleeps as invocations, and
\* with max_attempts <= 0 there is neither an invocation nor a sleep.
C33_OneSleepBetweenAttempts ==
    retrying.pc # "idle" =>
        /\ Geometric
        /\ retrying.pc \in {"call", "sleep"} => Sleeps = Invocations
        /\ retrying.pc = "call" => Invocations = retrying.attempt - 1
        /\ Finished =>
              Sleeps = IF retrying.interrupted \/ Invocations = 0
                       THEN Invocations
                       ELSE Invocations - 1

\* the third attempt returns after sleeps of 1 and 3 seconds
C33_Witness ==
    /\ retrying.pc = "returned"
    /\ Invocations = 3
    /\ retrying.delay = 1
    /\ retrying.backoff = 3
    /\ retrying.slept = <<1, 3>>

IsCancellation(result) == result.kind = "raise" /\ ~IsException(result)

\* C34: a cancellation raised by func is the last invocation, and one raised
\* in a back-off sleep ends the last sleep: retry() is then over, its result
\* is the cancellation, and no invocation and no sleep has followed.
C34_CancellationPropagates ==
    retrying.pc # "idle" =>
        /\ \A i \in 1..Invocations :
              IsCancellation(retrying.outcomes[i]) =>
                  /\ i = Invocations
                  /\ Sleeps = i - 1
                  /\ retrying.pc = "raised"
                  /\ retrying.result = retrying.outcomes[i]
        /\ retrying.interrupted =>
              /\ retrying.pc = "raised"
              /\ IsCancellation(retrying.result)
              /\ Sleeps = Invocations
              /\ IsException(retrying.outcomes[Invocations])

\* the sleep after the second failed attempt is cancelled
C34_Witness ==
    /\ retrying.pc = "raised"
    /\ retrying.interrupted
    /\ Invocations = 2
    /\ Sleeps = 2
    /\ IsCancellation(retrying.result)

----------------------------------------------------------------------------

(* Properties of the deploy state *)

IsPull(i) == calls[i].op = "git-pull" /\ calls[i].result.kind = "return"
IsSave(i) == calls[i].op = "save-deploy-state"
SameTarget(i, j) ==
    /\ calls[i].host = calls[j].host
    /\ calls[i].repo = calls[j].repo
    /\ calls[i].branch = calls[j].branch

\* the save-deploy-state calls for the target of call j that came before it
SavesBefore(j) == { i \in 1..(j - 1) : IsSave(i) /\ SameTarget(i, j) }

Latest(S) == CHOOSE i \in S : \A k \in S : k <= i

\* C19: a git-pull that returns after a successful save-deploy-state for the
\* same host, repository directory and branch, with no other
\* save-deploy-state for them in between, returns the saved commit as
\* old_commit; a git-pull for which no save-deploy-state was ever called
\* returns old_commit 'none'.
C19_PullReadsSavedCommit ==
    \A j \in DOMAIN calls : IsPull(j) =>
        IF SavesBefore(j) = {}
        THEN calls[j].result.value.old_commit = <<"none">>
        ELSE LET i == Latest(SavesBefore(j)) IN
             calls[i].result.kind = "return" =>
                 calls[j].result.value.old_commit = <<calls[i].new_commit>>

\* a save for one branch, a save for another, then a pull for the first
C19_Witness ==
    /\ Len(calls) = 3
    /\ IsSave(1) /\ calls[1].result.kind = "return"
    /\ IsSave(2) /\ calls[2].result.kind = "return"
    /\ calls[2].host = calls[1].host /\ calls[2].branch # calls[1].branch
    /\ calls[2].new_commit # calls[1].new_commit
    /\ IsPull(3) /\ SameTarget(1, 3)
    /\ calls[3].result.value.old_commit = <<calls[1].new_commit>>

\* C20 (as claimed): of two git-pull calls in a row for the same server and
\* branch, with no push to the branch between them, the second returns
\* has_changes = false.
C20_SecondPullHasNoChanges ==
    \A j \in 2..Len(calls) :
        IsPull(j - 1) /\ IsPull(j) /\ SameTarget(j - 1, j) =>
            ~calls[j].result.value.has_changes

----------------------------------------------------------------------------

(* Properties of the synced SHAs *)

IsCommitPush(i) ==
    /\ calls[i].op = "git-commit-push"
    /\ calls[i].result.kind = "return"

IsFetchVersion(j) ==
    /\ calls[j].op = "fetch-current-version"
    /\ calls[j].result.kind = "return"

\* C39: a fetch-current-version that returns after a successful
\* git-commit-push on the same server, with no other git-commit-push for
\* that server in between, returns the community and enterprise SHAs that
\* were synced.
C39_FetchReturnsSyncedShas ==
    \A i, j \in DOMAIN calls :
        (/\ i < j
         /\ IsCommitPush(i)
         /\ IsFetchVersion(j)
         /\ calls[i].host = calls[j].host
         /\ \A k \in (i + 1)..(j - 1) : calls[k].op # "git-commit-push")
        => /\ calls[j].result.value.current_community_sha = calls[i].community_sha
           /\ calls[j].result.value.current_enterprise_sha = calls[i].enterprise_sha

----------------------------------------------------------------------------
(* Properties of the deploy handlers *)

\* the calls of the handler invocation made so far with the command cmd
CallsOf(cmd) == { i \in 1..Len(handler.log) : handler.log[i].cmd = cmd }

ServerResolves == resolve_server(config, handler.server_host).kind = "return"

Returns(value) ==
    /\ handler.pc = "done"
    /\ handler.result.kind = "return"
    /\ handler.result.value = value

\* module-update called by the deploy pipeline with the 'all' of detect-modules
UpdateOfAll ==
    /\ handler.name = "module-update"
    /\ handler.piped
    /\ handler.changed_modules = <<"all">>

UpdatedAll ==
    /\ Returns([modules_updated |-> "all"])
    /\ \E i \in CallsOf("update") : handler.log[i].arg = "all"

\* C21, as stated: whenever detect-modules returns changed_modules = 'all' and the
\* value is passed to module-update, module-update runs the update with
\* '-u all' and returns modules_updated = 'all'
C21_AllAlwaysUpdatesAll ==
    (UpdateOfAll /\ ServerResolves /\ handler.pc = "done") => UpdatedAll

\* C21, amended: detect-modules returns 'all' when old_commit is 'none' or more
\* than 250 files changed; module-update given that value never queries the
\* installed modules, runs no update other than '-u all', and either returns
\* modules_updated = 'all' after the '-u all' update or raises because one of
\* its commands failed or its server is unknown; it never returns ''
C21_AllTakesTheAllPath ==
    /\ (/\ detected.result.kind = "return"
        /\ \/ detected.old_commit = "none"
           \/ detected.count = <<"2", "5", "1", "\n">>)
       => detected.result.value.changed_modules = <<"all">>
    /\ UpdateOfAll =>
          /\ CallsOf("installed") = {}
          /\ \A i \in CallsOf("update") : handler.log[i].arg = "all"
          /\ handler.pc = "done" =>
                \/ UpdatedAll
                \/ handler.result.kind = "raise"

C21_Witness ==
    /\ UpdateOfAll
    /\ detected.old_commit # "none"
    /\ UpdatedAll

\* C22: module-update invoked with an empty module list updates all modules:
\* it runs the '-u all' update as it does for the value 'all'
C22_EmptyListUpdatesAll ==
    (/\ handler.name = "module-update"
     /\ handler.changed_modules = <<>>
     /\ ServerResolves
     /\ handler.pc = "done")
    => \E i \in CallsOf("update") : handler.log[i].arg = "all"

\* C23: module-update invoked with changed_modules = '' executes no remote
\* command, whatever its server_host, and returns modules_updated = ''
\* (for a server_host the configuration resolves)
C23_EmptyDoesNothing ==
    (handler.name = "module-update" /\ Text(handler.changed_modules) = "")
    => /\ handler.log = <<>>
       /\ handler.pc = "done"
       /\ ServerResolves => Returns([modules_updated |-> ""])

C23_Witness ==
    /\ handler.name = "module-update"
    /\ handler.changed_modules = <<>>
    /\ handler.log = <<>>
    /\ Returns([modules_updated |-> ""])

\* 'docker stop' has returned: the handler went on to the odoo-bin -u run
StoppedWeb == CallsOf("stop") # {} /\ CallsOf("update") # {}

\* C35: every module-update that stopped the web container and has finished,
\* by a return or by an exception, has issued 'docker compose up -d' after
\* the odoo-bin -u run.
C35_StoppedIsStartedAgain ==
    (handler.name = "module-update" /\ StoppedWeb /\ handler.pc = "done")
    => \E i \in CallsOf("update"), j \in CallsOf("up") : i < j

\* module-update with a list of names that has the answer of the
\* installed-modules query
UpdateOfList ==
    /\ handler.name = "module-update"
    /\ Text(handler.changed_modules) \notin {"", "all"}
    /\ handler.queried

\* the listed names that are installed, in the order of the list
ListedInstalled ==
    LET listed == ModuleList(handler.changed_modules)
        hits == { i \in 1..Len(listed) : listed[i] \in Installed(handler.stdout) }
        RECURSIVE From(_)
        From(i) == IF i > Len(listed) THEN <<>>
                   ELSE IF i \in hits THEN <<listed[i]>> \o From(i + 1)
                   ELSE From(i + 1)
    IN  From(1)

\* C36: module-update given a list other than '' and 'all' runs no update
\* when none of the listed modules is installed, the update of exactly the
\* listed modules that are installed when there are 1 to 10 of them, and the
\* update of 'all' when there are more than 10; what it returns after the
\* update is what it updated.
C36_UpdatesListedInstalled ==
    UpdateOfList =>
        LET n == Len(ListedInstalled)
            expected == IF n > 10 THEN "all" ELSE Text(Join(ListedInstalled, ","))
        IN  /\ \A i \in CallsOf("update") : handler.log[i].arg = expected
            /\ n = 0 => CallsOf("update") = {} /\ Returns([modules_updated |-> ""])
            /\ n > 0 /\ handler.pc = "done" =>
                  \/ CallsOf("update") # {} /\ Returns([modules_updated |-> expected])
                  \/ handler.result.kind = "raise"

\* eleven modules listed, ten of them installed: the ten are updated by name
C36_Witness ==
    /\ UpdateOfList
    /\ Len(ModuleList(handler.changed_modules)) = 11
    /\ Len(ListedInstalled) = 10
    /\ Returns([modules_updated |-> "m01,m02,m03,m04,m05,m06,m07,m08,m09,m10"])

\* C27: rollback invoked with old_commit = 'none' makes no SSH call,
\* whatever its server_host and branch, and returns {} (for a server_host the
\* configuration resolves)
C27_RollbackOfNoneDoesNothing ==
    (handler.name = "rollback" /\ handler.old_commit = "none")
    => /\ handler.log = <<>>
       /\ handler.pc = "done"
       /\ ServerResolves => Returns(<<>>)

C27_Witness ==
    /\ handler.name = "rollback"
    /\ handler.old_commit = "none"
    /\ handler.branch = "staging"
    /\ handler.log = <<>>
    /\ Returns(<<>>)

\* C28: github-pr-ready marks the pull request ready exactly once and then
\* publishes exactly one msg_pr_event message carrying the pr_number, and
\* returns {}
C28_PrReadyPublishesOnce ==
    (handler.name = "github-pr-ready" /\ handler.pc = "done"
     /\ handler.result.kind = "return")
    => /\ Cardinality(CallsOf("mark_ready")) = 1
       /\ Cardinality(CallsOf("publish_message")) = 1
       /\ \A i \in CallsOf("publish_message") :
             handler.log[i].arg = ToString(handler.pr_number)

----------------------------------------------------------------------------

(* Properties of docker-up *)

IsDockerUp == handler.name = "docker-up"

IsSleep(i, seconds) ==
    /\ i \in 1..Len(handler.log)
    /\ handler.log[i] = [cmd |-> "sleep", arg |-> seconds]

\* the probes made with cmd are apart by one sleep of the given length, and
\* the first of them follows the call named before
ProbesApart(cmd, seconds, before) ==
    \A i \in CallsOf(cmd) :
        \/ handler.log[i - 1].cmd = before
        \/ IsSleep(i - 1, seconds) /\ handler.log[i - 2].cmd = cmd

\* every probe made with cmd has ended with the answer given
AllAnswered(cmd, answer) ==
    \A i \in CallsOf(cmd) : i <= Len(handler.answers) /\ handler.answers[i] = answer

LongestLog == (2 * 3 - 1) + (2 * 12 - 1) + (2 * 24 - 1)

\* C37: docker-up probes the container status at most 12 times, 5 s apart,
\* and after that the HTTP endpoint at most 24 times, 10 s apart; it returns
\* only when a status probe answered 'running' and the last HTTP probe
\* succeeded after it; twelve status probes without 'running', or
\* twenty-four HTTP probes without success, end it with a RuntimeError and
\* no further remote call; and every step of an unfinished docker-up either
\* finishes it or adds to a log that is never longer than 75 entries, so it
\* always terminates.
C37_DockerUpTerminates ==
    /\ [](IsDockerUp =>
            /\ Cardinality(CallsOf("status")) <= 12
            /\ Cardinality(CallsOf("http")) <= 24
            /\ Len(handler.log) <= LongestLog
            /\ \A i \in CallsOf("status"), j \in CallsOf("http") : i < j
            /\ ProbesApart("status", "5", "up")
            /\ ProbesApart("http", "10", "status")
            /\ Returns(<<>>) =>
                  /\ \E i \in CallsOf("status") : handler.answers[i] = "running"
                  /\ Len(handler.log) \in CallsOf("http")
                  /\ handler.answers[Len(handler.log)] = "ok"
            /\ (Cardinality(CallsOf("status")) = 12 /\ AllAnswered("status", "unknown"))
               => /\ handler.pc = "done"
                  /\ handler.result.class = "RuntimeError"
                  /\ CallsOf("http") = {}
            /\ (Cardinality(CallsOf("http")) = 24 /\ AllAnswered("http", "fail"))
               => /\ handler.pc = "done"
                  /\ handler.result.class = "RuntimeError"
                  /\ handler.log[Len(handler.log)].cmd = "http")
    /\ [][IsDockerUp /\ handler.pc # "done" =>
            \/ handler'.pc = "done"
            \/ Len(handler'.log) > Len(handler.log)]_vars

\* the container is seen running at the twelfth status probe and /web/login
\* answers at the twenty-fourth HTTP probe
C37_Witness ==
    /\ IsDockerUp
    /\ Cardinality(CallsOf("status")) = 12
    /\ Cardinality(CallsOf("http")) = 24
    /\ Returns(<<>>)

----------------------------------------------------------------------------

(* Properties of audit-analysis *)

\* the upload has returned: the handler went on to 'git add -N'
Uploaded == CallsOf("upload") # {} /\ CallsOf("git_add") # {}

\* C40: every audit-analysis that uploaded the analysis script and has
\* finished, by a return or by an exception, has issued 'rm -f' for it.
C40_UploadedScriptIsRemoved ==
    (handler.name = "audit-analysis" /\ Uploaded /\ handler.pc = "done")
    => CallsOf("rm") # {}

----------------------------------------------------------------------------
(* Properties of _parse_review_score *)

\* C24: for every review comment body, the parsed score is an integer from 0
\* to 10
C24_ScoreInZeroToTen ==
    scored # NoScore => scored.score \in 0..10

----------------------------------------------------------------------------

(* Properties of the clickbot teardown *)

\* the handler invocation inv ends in this step
InvocationEnds(inv) ==
    /\ inv \in invocations
    /\ \A j \in invocations' : j.lease # inv.lease

\* C25: every execution of clickbot-test that reached its first remote step
\* ends only after the whole teardown: the last command it issued is the
\* removal of the dump, which follows 'down -v'
C25_TeardownAlwaysRuns ==
    [][task.type = "clickbot-test" =>
          \A inv \in invocations :
             (inv.pc # "start" /\ InvocationEnds(inv)) => inv.pc = "cleanup_rm"]_vars

----------------------------------------------------------------------------

(* Properties of resolve_server *)

\* C29: resolve_server(x) returns the server registered under the name x if
\* there is one, otherwise a registered server whose host is x, and raises
\* ValueError when there is neither
C29_ResolveByNameThenHost ==
    resolved # NotResolved =>
       LET x == resolved.server_host
           servers == config.servers
       IN  IF x \in DOMAIN servers THEN resolved.result = Return(servers[x])
           ELSE IF \E n \in DOMAIN servers : servers[n].host = x
           THEN /\ resolved.result.kind = "return"
                /\ \E n \in DOMAIN servers :
                      servers[n].host = x /\ resolved.result.value = servers[n]
           ELSE /\ resolved.result.kind = "raise"
                /\ resolved.result.class = "ValueError"

\* a server registered only as 'staging' is found by its raw host string
C29_Witness ==
    /\ DOMAIN config.servers = {"staging"}
    /\ resolved.server_host = "staging.example.com"
    /\ resolved.result = Return(RegisteredServer("staging", "staging.example.com"))

----------------------------------------------------------------------------

(* Properties of the Odoo task correlation *)

\* what Odoo surfaced of the id of the task it created: 0 when nothing
Surfaced(answer) ==
    IF answer.kind # "json" THEN 0
    ELSE IF "id" \in DOMAIN answer.data /\ answer.data.id.t = "int"
    THEN answer.data.id.n
    ELSE IF "task_id" \in DOMAIN answer.data /\ answer.data.task_id.t = "int"
    THEN answer.data.task_id.n
    ELSE 0

DecimalStrings == { ToString(n) : n \in OdooIds \cup ProcessInstanceKeys }

\* C26: whenever create-odoo-task returns, odoo_task_id is a string: the
\* decimal id of the Odoo task when Odoo returned a non-zero id, and the job's
\* process_instance_key as a string when Odoo returned id 0 or none
C26_ReturnsStringId ==
    odooTask.result.kind = "return" =>
       /\ odooTask.result.value.odoo_task_id \in DecimalStrings
       /\ odooTask.result.value.odoo_task_id =
             IF Surfaced(odooTask.answer) # 0 THEN ToString(odooTask.id)
             ELSE ToString(odooTask.pik)

C26_Witness ==
    /\ odooTask.result.kind = "return"
    /\ odooTask.answer = [kind |-> "json", data |-> [id |-> JInt(0)]]
    /\ odooTask.result.value.odoo_task_id = ToString(odooTask.pik)

\* C30: an authenticated 'done' webhook for a task create-odoo-task created,
\* carrying the task's id, its process instance key, or both, publishes
\* msg_odoo_task_done with the odoo_task_id the handler returned as the
\* correlation key
C30_DoneResumesTheWaitingInstance ==
    (whPc = "responded" /\ request.kind = "odoo"
     /\ odooTask.result.kind = "return")
    => /\ Len(published) + Len(rejected) = 1
       /\ \A i \in 1..Len(published) :
             /\ published[i].name = "msg_odoo_task_done"
             /\ published[i].correlation_key = odooTask.result.value.odoo_task_id
       /\ \A i \in 1..Len(rejected) :
             rejected[i].correlation_key = odooTask.result.value.odoo_task_id

----------------------------------------------------------------------------

(* Properties of the token managers *)

\* C4 (as claimed): every token returned by get_token() or by the token
\* accessor has at least 60 seconds left before it expires.
C4_HandedTokenHas60Seconds ==
    handed.token # 0 => handed.remaining >= 60

InFlight == { t \in Threads : thread[t].pc = "posting" }

\* get_token() of t has the lock and goes on to the token endpoint
GetFetches(t) ==
    /\ thread[t].op = "get"
    /\ thread[t].pc = "waiting"
    /\ thread'[t].pc = "posting"

\* get_token() of t has the lock and returns without a request
GetReturnsCached(t) ==
    /\ thread[t].op = "get"
    /\ thread[t].pc = "waiting"
    /\ thread'[t].pc = "idle"

\* another caller's fetch succeeded since t entered, and no time has passed
FetchedMeanwhile(t) ==
    now = 0 /\ thread[t].pc = "waiting" /\ thread[t].seen < Len(issued)

\* C32 (as claimed): concurrent get_token() calls that find the cache empty
\* or stale cause a single fetch whose token all of them return: a get_token()
\* that waited while another caller fetched a token makes no request itself.
C32_ConcurrentGetsFetchOnce ==
    [][\A t \in Threads : FetchedMeanwhile(t) => ~GetFetches(t)]_vars

\* C32 (amended): at most one token request is in flight at a time and it is
\* made by the holder of the lock; a get_token() that gets the lock makes a
\* request exactly when the cache is then empty or within 60 seconds of its
\* expiry (which is so after a failed fetch and after a fetch of a token that
\* lives 60 seconds or less), and otherwise returns the cached token as it is.
C32_RefreshesAreExclusive ==
    /\ [](/\ Cardinality(InFlight) <= 1
          /\ \A t \in InFlight : tmLock = t
          /\ InFlight = {} => tmLock = 0)
    /\ [][\A t \in Threads :
            /\ GetFetches(t) => tm.token = 0 \/ now >= tm.expiry - 60
            /\ GetReturnsCached(t) =>
                    /\ tm.token # 0 /\ now < tm.expiry - 60
                    /\ handed'.token = tm.token
                    /\ UNCHANGED <<tm, issued, tmLock>>]_vars

\* a get_token() that waited while another caller fetched a token with more
\* than 60 seconds left, and now finds the lock free
C32_Witness ==
    \E t \in Threads :
        /\ thread[t].op = "get"
        /\ thread[t].pc = "waiting"
        /\ FetchedMeanwhile(t)
        /\ tm.token = Len(issued)
        /\ now < tm.expiry - 60
        /\ tmLock = 0

----------------------------------------------------------------------------
(* Properties of the job workers *)

Ended(l) == leases[l].fate # "running"

RaisedOnLastRetry(l) ==
    /\ leases[l].fate = "reported"
    /\ leases[l].result.kind = "raise"
    /\ leases[l].retries <= 1

IsPrefix(a, b) == Len(a) <= Len(b) /\ SubSeq(b, 1, Len(a)) = a

C2_LastRetryRaiseIsBpmnError ==
    \A l \in DOMAIN leases :
        RaisedOnLastRetry(l) =>
            /\ Len(reports[l]) = 1
            /\ reports[l][1].kind = "error"
            /\ reports[l][1].code = leases[l].result.class
            /\ IsPrefix(reports[l][1].message, leases[l].result.text)

\* C5 (as claimed): the supervising loop of worker/worker.py never exits,
\* whatever the token endpoint answers during recovery.
C5_SupervisorNeverExits ==
    worker = "python-worker" => supPc # "exited"

----------------------------------------------------------------------------
(* Properties of the pipeline handlers *)

\* C6 (as claimed): no handler invocation is still executing after its lease's
\* deadline, and invocations of two leases of the same job never execute at
\* the same time.
C6_NoRunPastJobTimeout ==
    /\ \A inv \in invocations : now <= inv.deadline
    /\ \A a, b \in invocations : a.lease = b.lease

====
